---------------------------- MODULE Spec2Model ----------------------------
(***************************************************************************)
(* A model of the memaw resource adaptors: the block cache                 *)
(* (cache_resource_impl), the size-class pool (pool_resource_impl) and     *)
(* the lock-free stack they are built on.  Addresses and sizes are bytes.  *)
(* Every access to shared memory made through mem_ref (a load, a store, a  *)
(* compare-exchange) is one step of the calling thread, so the             *)
(* interleavings of the model are the interleavings of those accesses.     *)
(***************************************************************************)
EXTENDS Integers, Sequences, FiniteSets, TLC

VARIABLES
  kind,               \* which resource the program has constructed
  workload,           \* the (size, alignment) requests the callers make
  trace,              \* whether finished calls and their history are kept
  ups,                \* capabilities of the upstream resource type
  rhs,                \* cache: the instance the cache was move-constructed from
  brk,                \* upstream: next free address of its arena
  blocks,             \* upstream: blocks handed out, in order of allocation
  ups_deallocs,       \* upstream: deallocate calls received, in order
  head_,              \* cache: head_block_t {ptr, size}
  free_chunks,        \* cache: the list hanging off free_chunks_head_
  last_block_size_,   \* cache: the block size hint
  chunk_stacks_,      \* pool / stack: head_t {ptr, aba_counter} per stack
  mem_next,           \* pool / stack: the `next` field of the node at an address
  on_stack,           \* per stack: the nodes pushed and not popped since
  destroyed,          \* the destructor of the resource has run
  pc,                 \* per thread: position in the running call
  loc,                \* per thread: local variables of the running call
  call,               \* per thread: the running (or last finished) call
  live,               \* per thread: allocations held by the caller
  returned,           \* every range a successful allocate has returned so far
  budget,             \* per thread: calls the thread may still make
  interfered          \* per thread: another thread has written the word the
                      \* thread is working on since the thread read it

vars == << kind, workload, trace, ups, rhs, brk, blocks, ups_deallocs, head_, free_chunks,
           last_block_size_, chunk_stacks_, mem_next, on_stack, destroyed,
           pc, loc, call, live, returned, budget, interfered >>

config_vars   == << kind, workload, trace, ups, rhs >>
setup_vars    == << config_vars, interfered >>
upstream_vars == << brk, blocks, ups_deallocs >>
cache_vars    == << head_, free_chunks, last_block_size_ >>
pool_vars     == << chunk_stacks_, mem_next, on_stack >>

-----------------------------------------------------------------------------
(* Bounds of the model *)

\* upstream allocations that can succeed before the arena is used up
MaxBlocks == 2

\* calls the thread of a sequential specification makes
MaxOps == 4

\* calls each thread of a concurrent specification makes
MaxThreadOps == 2

\* calls each thread makes on the stack on its own
MaxStackOps == 3

\* the threads of the concurrent specifications
Threads == {"t1", "t2"}

\* the thread of the sequential specifications
MainThread == "t1"

\* the address the upstream's arena starts at
ArenaBase == 4096

\* the distances the upstream may leave between two blocks
Gaps == {0, 40}

-----------------------------------------------------------------------------
(* Arithmetic helpers *)

Max(a, b) == IF a >= b THEN a ELSE b

Min(a, b) == IF a <= b THEN a ELSE b

\* ceil(a / b) for positive b
CeilDiv(a, b) == (a + b - 1) \div b

\* (ptr + mask) & ~mask for a power of two alignment, with the padding
align_pointer(ptr, alignment) ==
  LET result == ((ptr + (alignment - 1)) \div alignment) * alignment
  IN  [result |-> result, padding |-> result - ptr]

\* pow2_t{} : the default-constructed power of two
DefaultPow2 == 1

\* alignof(std::max_align_t)
MaxAlign == 16

NULL == 0


-----------------------------------------------------------------------------
(* The upstream resource: test_resource over the mock of the test base *)

\* resource_params of the upstream types the cache is instantiated with:
\* no limits, bound (min_size above the smallest block) and granular
\* (min_size no divisor of the granularity)
CacheUpstreams ==
  { [min_size |-> 0,   is_granular |-> FALSE, alignment |-> 0],
    [min_size |-> 100, is_granular |-> FALSE, alignment |-> 64],
    [min_size |-> 40,  is_granular |-> TRUE,  alignment |-> 32] }

\* the upstream type of the concurrent runs: the granular one
CacheThreadUpstreams == { u \in CacheUpstreams : u.is_granular }

\* resource_traits<R>::guaranteed_alignment()
guaranteed_alignment(u) == IF u.alignment > 0 THEN u.alignment ELSE MaxAlign

\* ceil_allocation_size for the upstream type u
ceil_allocation_size(u, size) ==
  IF u.min_size > 0 /\ u.is_granular
    THEN LET remainder == size % u.min_size
         IN  size + (IF remainder > 0 THEN u.min_size - remainder ELSE 0)
    ELSE IF u.min_size > 0 THEN Max(size, u.min_size)
    ELSE size

\* the address the mock returns for a request: it aligns its bump pointer
\* by the larger of the requested and the upstream's own alignment
mock_allocate(gap, alignment) ==
  align_pointer(brk + gap, Max(alignment, ups.alignment)).result

\* the upstream's state after it has handed out [ptr, ptr + size)
UpstreamTakes(ptr, size, alignment) ==
  /\ blocks' = Append(blocks, [ptr |-> ptr, size |-> size,
                               alignment |-> alignment])
  /\ brk' = ptr + size
  /\ UNCHANGED ups_deallocs

-----------------------------------------------------------------------------
(* Ranges *)

RangeEnd(r) == r.ptr + r.size

Disjoint(a, b) == RangeEnd(a) <= b.ptr \/ RangeEnd(b) <= a.ptr

Inside(a, b) == b.ptr <= a.ptr /\ RangeEnd(a) <= RangeEnd(b)

SeqToSet(s) == { s[i] : i \in 1..Len(s) }

AllLive == UNION { live[t] : t \in DOMAIN live }

-----------------------------------------------------------------------------
(* Threads: the state shared by the calls of both resources *)

NoHead == [ptr |-> 0, size |-> 0]

NoChunk == [ptr |-> 0, next |-> 0, size |-> 0, alignment |-> 0]

NoStackHead == [ptr |-> 0, aba_counter |-> 0]

NoLoc ==
  [ size |-> 0, alignment |-> 0,
    curr_head |-> NoHead, next_head |-> NoHead,
    next_size |-> 0, next_allocation |-> 0, allocation_size |-> 0,
    result |-> 0, chunk |-> NoChunk, ret_to |-> "none",
    stack_id |-> 0, old_head |-> NoStackHead, new_head |-> NoStackHead,
    block |-> NoHead, todo |-> << >> ]

NoSnapshot ==
  [ head |-> NoHead, free |-> << >>, hint |-> 0, stacks |-> << >>,
    blocks |-> 0 ]

\* the resource has not been move-constructed from another instance
NoRhs ==
  [ moved |-> FALSE, head_ |-> NoHead, free_chunks |-> << >>,
    last_block_size_ |-> 0, destroyed |-> FALSE,
    former |-> NoSnapshot, calls_left |-> 0, released |-> << >> ]

\* what a call remembers of the call its thread made before it
NoPrevious == [op |-> "none", size |-> 0, alignment |-> 0]

NoCall ==
  [ op |-> "none", size |-> 0, alignment |-> 0, ptr |-> 0, res |-> 0,
    done |-> TRUE, upstream_calls |-> << >>, snapshot |-> NoSnapshot,
    source |-> NoHead, after_failure |-> FALSE, previous |-> NoPrevious ]

Previous(c) == [op |-> c.op, size |-> c.size, alignment |-> c.alignment]

\* the finished call c was an allocate that the upstream's failure made fail
UpstreamMadeFail(c) ==
  /\ c.op = "allocate" /\ c.done /\ c.res = 0
  /\ c.upstream_calls # << >>

\* what a traced call remembers of the state it started in
Snapshot ==
  IF trace
    THEN [ head |-> head_, free |-> free_chunks, hint |-> last_block_size_,
           stacks |-> chunk_stacks_, blocks |-> Len(blocks) ]
    ELSE NoSnapshot

\* a caller may start a call on a resource that is alive
CanCall(t) == ~destroyed /\ pc[t] = "idle" /\ budget[t] > 0

\* what the caller of thread t holds once its call has returned res; clash
\* tells that the caller was handed something that was not free to be given
Handed(t, res) ==
  [ ptr |-> res, size |-> call[t].size, alignment |-> call[t].alignment,
    clash |-> IF call[t].op = "pop"
                THEN res \notin on_stack[loc[t].stack_id]
                ELSE \E b \in AllLive :
                       ~Disjoint([ptr |-> res, size |-> call[t].size], b) ]

\* the call of thread t returns res
Return(t, res) ==
  /\ pc' = [pc EXCEPT ![t] = "idle"]
  /\ loc' = [loc EXCEPT ![t] = NoLoc]
  /\ call' = [call EXCEPT ![t] =
                IF trace THEN [@ EXCEPT !.res = res, !.done = TRUE,
                                        !.source = loc[t].block]
                ELSE NoCall]
  /\ IF call[t].op \in {"allocate", "pop"} /\ res # NULL
       THEN LET a == Handed(t, res)
            IN  /\ live' = [live EXCEPT ![t] = @ \cup {a}]
                /\ returned' = returned \cup
                     { [ptr |-> a.ptr, size |-> a.size,
                        again |-> \E r \in returned :
                                    r.ptr = a.ptr /\ r.size = a.size] }
       ELSE UNCHANGED << live, returned >>

\* thread t enters a call
StartCall(t, op, size, alignment, ptr) ==
  /\ call' = [call EXCEPT ![t] =
                [ op |-> op, size |-> size, alignment |-> alignment,
                  ptr |-> ptr, res |-> 0, done |-> FALSE,
                  upstream_calls |-> << >>, snapshot |-> Snapshot,
                  source |-> NoHead,
                  after_failure |-> UpstreamMadeFail(call[t]),
                  previous |-> Previous(call[t]) ]]
  /\ budget' = [budget EXCEPT ![t] = @ - 1]

\* thread t makes a call that returns at once, with res
ImmediateCall(t, op, size, alignment, ptr, res) ==
  /\ call' = [call EXCEPT ![t] =
                IF trace
                  THEN [ op |-> op, size |-> size, alignment |-> alignment,
                         ptr |-> ptr, res |-> res, done |-> TRUE,
                         upstream_calls |-> << >>, snapshot |-> Snapshot,
                         source |-> NoHead,
                         after_failure |-> UpstreamMadeFail(call[t]),
                         previous |-> Previous(call[t]) ]
                  ELSE NoCall]
  /\ budget' = [budget EXCEPT ![t] = @ - 1]

\* the call of thread t has asked the upstream for memory
NoteUpstreamCall(t, request) ==
  call' = [call EXCEPT ![t].upstream_calls =
             IF trace THEN Append(@, request) ELSE @]

\* the positions at which a thread holds a value it has read from the head
\* of the cache and may still compare-and-swap it
HeadSteps ==
  { "load_head_size", "fast_path", "next_block_size", "upstream_call",
    "upstream_ok", "upstream_failed", "install" }

\* the positions at which a thread holds a value it has read from the head
\* of a stack
StackSteps ==
  { "push_load_counter", "push_store_next", "push_cas",
    "pop_load_counter", "pop_read_next", "pop_cas" }

\* the shared word thread t has read and is about to compare-and-swap
Watching(t) ==
  IF pc[t] \in HeadSteps THEN << "head_", 0 >>
  ELSE IF pc[t] = "push_chunk" THEN << "free_chunks_head_", 0 >>
  ELSE IF pc[t] \in StackSteps THEN << "stack", loc[t].stack_id >>
  ELSE << "none", 0 >>

\* thread t reads a shared word, or has it reloaded by a failed
\* compare-and-swap
Reads(t) == interfered' = [interfered EXCEPT ![t] = FALSE]

\* the compare-and-swap of thread t writes the word it is working on
Writes(t) ==
  interfered' = [u \in DOMAIN interfered |->
                   IF u = t THEN FALSE
                   ELSE IF Watching(u) = Watching(t) THEN TRUE
                   ELSE interfered[u]]

-----------------------------------------------------------------------------
(* cache_resource_impl *)

\* cache_resource_config: the multiplier 2.5 is kept as a fraction
CacheCfg ==
  [ granularity |-> 32, min_block_size |-> 64, max_block_size |-> 256,
    block_size_multiplier |-> [num |-> 5, den |-> 2] ]

\* What the caller of a sequential run asks the cache for: one granule, a
\* whole first block, a size between the first and the second block size
\* and a size that is no multiple of the granularity, aligned below and
\* above the granularity.
CacheRequests ==
  [size : {32, 64, 96, 33}, alignment : {16, 64}]

\* What the threads of a concurrent run ask the cache for.
CacheThreadRequests ==
  { [size |-> 32, alignment |-> 16], [size |-> 64, alignment |-> 64] }

\* the values an uninitialised head_.ptr may hold after construction
UninitPtrs == {0, 4104}

\* faulty variant: the next block size is not held to max_block_size
NextBlockSizeUncapped(value) ==
  IF value = 0 THEN CacheCfg.min_block_size
  ELSE (value * CacheCfg.block_size_multiplier.num)
         \div CacheCfg.block_size_multiplier.den

\* get_next_block_size(), value being the hint it has loaded
get_next_block_size(value) ==
  IF CacheCfg.min_block_size = CacheCfg.max_block_size
    THEN CacheCfg.max_block_size
    ELSE IF value = 0 THEN CacheCfg.min_block_size
    ELSE Min((value * CacheCfg.block_size_multiplier.num)
               \div CacheCfg.block_size_multiplier.den,
             CacheCfg.max_block_size)

\* faulty variant: one step down leads to min_block_size
PrevBlockSizeIsMin(size) == CacheCfg.min_block_size

\* get_prev_block_size(size)
get_prev_block_size(size) ==
  IF CacheCfg.min_block_size = CacheCfg.max_block_size
    THEN CacheCfg.min_block_size
    ELSE Max(CeilDiv(size * CacheCfg.block_size_multiplier.den,
                     CacheCfg.block_size_multiplier.num),
             CacheCfg.min_block_size)

\* faulty variant: the size is not checked
CacheSizeAccepted(size) == FALSE

\* allocate: if (size % _cfg.granularity) return nullptr
CacheSizeRejected(size) == size % CacheCfg.granularity # 0

\* faulty variant: the alignment of the head is not looked at
NeedsDirectAllocationBySize(curr_head, size, alignment) ==
  curr_head.size < size

\* faulty variant: a head with exactly the requested size is not used
NeedsDirectAllocationStrict(curr_head, size, alignment) ==
  curr_head.size <= size \/ curr_head.ptr % alignment # 0

\* allocate, fast path: the head cannot serve the request
NeedsDirectAllocation(curr_head, size, alignment) ==
  curr_head.size < size \/ curr_head.ptr % alignment # 0

\* faulty variant: the size of the head shrinks, its pointer stays
AdvancedHeadSizeOnly(curr_head, size) ==
  [ptr |-> curr_head.ptr, size |-> curr_head.size - size]

\* allocate, fast path: the head that is left after the request is served
AdvancedHead(curr_head, size) ==
  [ptr |-> curr_head.ptr + size, size |-> curr_head.size - size]

\* faulty variant: the head is stored without being compared
HeadStoredBlindly(expected) == TRUE

\* mem_ref<head_block_t>::compare_exchange_weak succeeds
HeadCasSucceeds(expected) == head_ = expected

\* faulty variant: the first request is for the next block size, whatever
\* the size asked for
FirstAllocationIsNext(next_allocation, size) == next_allocation

\* upstream_allocate: the size of the first request
FirstAllocationSize(next_allocation, size) ==
  IF next_allocation >= size THEN next_allocation
  ELSE ceil_allocation_size(ups, size)

\* upstream_allocate: the alignment passed to the upstream
UpstreamAlignment(alignment) == Max(alignment, CacheCfg.granularity)

\* faulty variant: the reduced size is never compared with the request
CanAlwaysReduce(allocation_size, size) == FALSE

\* upstream_allocate: the reduced size is too small for the request
CannotReduce(allocation_size, size) == allocation_size < size

\* faulty variant: the bytes of the allocation are counted to the head too
NextHeadOfWholeBlock(result, allocation_size, size) ==
  [ptr |-> result + size, size |-> allocation_size]

\* allocate: the head a fresh block would make
NextHead(result, allocation_size, size) ==
  [ptr |-> result + size, size |-> allocation_size - size]

\* faulty variant: a head as large as the rest of the block is replaced
KeepsLargerHead(curr_head, next_head) == curr_head.size > next_head.size

\* allocate: the current head is kept, the rest of the block is freed
KeepsHead(curr_head, next_head) == curr_head.size >= next_head.size

\* the pointer free_chunks_head_ holds
FreeChunksHead == IF free_chunks = << >> THEN NULL ELSE free_chunks[1].ptr

CacheAllocate(t) ==
  /\ kind = "cache" /\ CanCall(t)
  /\ \E r \in workload :
       IF CacheSizeRejected(r.size)
         THEN /\ ImmediateCall(t, "allocate", r.size, r.alignment, 0, NULL)
              /\ UNCHANGED << pc, loc, live, returned >>
         ELSE /\ StartCall(t, "allocate", r.size, r.alignment, 0)
              /\ pc' = [pc EXCEPT ![t] = "load_head_ptr"]
              /\ loc' = [loc EXCEPT ![t].size = r.size,
                                    ![t].alignment = r.alignment]
              /\ UNCHANGED << live, returned >>
  /\ UNCHANGED << setup_vars, upstream_vars, cache_vars, pool_vars, destroyed >>

\* .ptr = make_mem_ref(head_.ptr).load(relaxed)
CacheLoadHeadPtr(t) ==
  /\ pc[t] = "load_head_ptr"
  /\ Reads(t)
  /\ loc' = [loc EXCEPT ![t].curr_head.ptr = head_.ptr]
  /\ pc' = [pc EXCEPT ![t] = "load_head_size"]
  /\ UNCHANGED << config_vars, upstream_vars, cache_vars, pool_vars, destroyed,
                  call, live, returned, budget >>

\* .size = make_mem_ref(head_.size).load(relaxed)
CacheLoadHeadSize(t) ==
  /\ pc[t] = "load_head_size"
  /\ loc' = [loc EXCEPT ![t].curr_head.size = head_.size]
  /\ pc' = [pc EXCEPT ![t] = "fast_path"]
  /\ UNCHANGED << setup_vars, upstream_vars, cache_vars, pool_vars, destroyed,
                  call, live, returned, budget >>

\* one turn of the first loop of allocate
CacheFastPath(t) ==
  /\ pc[t] = "fast_path"
  /\ LET l == loc[t] IN
     IF NeedsDirectAllocation(l.curr_head, l.size, l.alignment)
       THEN /\ pc' = [pc EXCEPT ![t] = "next_block_size"]
            /\ UNCHANGED << loc, call, live, returned, head_, interfered >>
       ELSE IF HeadCasSucceeds(l.curr_head)
         THEN /\ head_' = AdvancedHead(l.curr_head, l.size)
              /\ Writes(t)
              /\ Return(t, l.curr_head.ptr)
         ELSE /\ loc' = [loc EXCEPT ![t].curr_head = head_]
              /\ Reads(t)
              /\ UNCHANGED << pc, call, live, returned, head_ >>
  /\ UNCHANGED << config_vars, upstream_vars, free_chunks, last_block_size_,
                  pool_vars, destroyed, budget >>

\* upstream_allocate: the sizes it starts with
CacheNextBlockSize(t) ==
  /\ pc[t] = "next_block_size"
  /\ LET next_size == get_next_block_size(last_block_size_)
         next_allocation == ceil_allocation_size(ups, next_size)
     IN  loc' = [loc EXCEPT
                   ![t].next_size = next_size,
                   ![t].next_allocation = next_allocation,
                   ![t].allocation_size =
                      FirstAllocationSize(next_allocation, loc[t].size)]
  /\ pc' = [pc EXCEPT ![t] = "upstream_call"]
  /\ UNCHANGED << setup_vars, upstream_vars, cache_vars, pool_vars, destroyed,
                  call, live, returned, budget >>

\* upstream_allocate: result = try_allocate(upstream_, ...), the mock of the
\* upstream serving no more than capacity requests
CacheUpstreamCallOf(t, capacity) ==
  /\ pc[t] = "upstream_call"
  /\ LET l == loc[t]
         alignment == UpstreamAlignment(l.alignment)
         request == [size |-> l.allocation_size, alignment |-> alignment,
                     next_size |-> l.next_size]
     IN  /\ NoteUpstreamCall(t, request)
         /\ \/ /\ Len(blocks) < capacity
               /\ \E gap \in Gaps :
                    LET result == mock_allocate(gap, alignment) IN
                    /\ UpstreamTakes(result, l.allocation_size, alignment)
                    /\ loc' = [loc EXCEPT ![t].result = result]
               /\ pc' = [pc EXCEPT ![t] = "upstream_ok"]
            \/ /\ loc' = [loc EXCEPT ![t].result = NULL]
               /\ pc' = [pc EXCEPT ![t] = "upstream_failed"]
               /\ UNCHANGED << upstream_vars >>
  /\ UNCHANGED << setup_vars, cache_vars, pool_vars, destroyed,
                  live, returned, budget >>

\* upstream_allocate: the request to the upstream in the runs where the mock
\* serves MaxBlocks requests
CacheUpstreamCall(t) == CacheUpstreamCallOf(t, MaxBlocks)

\* upstream_allocate returns the block; allocate prepares the new head
CacheUpstreamOk(t) ==
  /\ pc[t] = "upstream_ok"
  /\ last_block_size_' = loc[t].next_size
  /\ loc' = [loc EXCEPT ![t].next_head =
               NextHead(loc[t].result, loc[t].allocation_size, loc[t].size)]
  /\ pc' = [pc EXCEPT ![t] = "install"]
  /\ UNCHANGED << setup_vars, upstream_vars, head_, free_chunks, pool_vars,
                  destroyed, call, live, returned, budget >>

\* upstream_allocate after a failed request: give up or reduce the size
CacheUpstreamFailed(t) ==
  /\ pc[t] = "upstream_failed"
  /\ LET l == loc[t]
         regular == l.alignment <= CacheCfg.granularity
         prev_size == get_prev_block_size(l.next_size)
         prev_allocation == ceil_allocation_size(ups, prev_size)
     IN  IF l.allocation_size > l.next_allocation
           THEN /\ Return(t, NULL)
                /\ UNCHANGED last_block_size_
         ELSE IF l.next_size = CacheCfg.min_block_size
           THEN /\ Return(t, NULL)
                /\ last_block_size_' =
                     IF regular THEN 0 ELSE last_block_size_
         ELSE IF CannotReduce(prev_allocation, l.size)
           THEN /\ Return(t, NULL)
                /\ last_block_size_' =
                     IF regular THEN prev_size ELSE last_block_size_
         ELSE /\ loc' = [loc EXCEPT ![t].next_size = prev_size,
                                    ![t].next_allocation = prev_allocation,
                                    ![t].allocation_size = prev_allocation]
              /\ pc' = [pc EXCEPT ![t] = "upstream_call"]
              /\ UNCHANGED << last_block_size_, call, live, returned >>
  /\ UNCHANGED << setup_vars, upstream_vars, head_, free_chunks, pool_vars,
                  destroyed, budget >>

\* deallocate(ptr, size, alignment) called from inside allocate
InnerDeallocate(t, ptr, size) ==
  /\ loc' = [loc EXCEPT ![t].chunk =
               [ptr |-> ptr, next |-> 0, size |-> size,
                alignment |-> DefaultPow2],
             ![t].ret_to = "allocate"]
  /\ pc' = [pc EXCEPT ![t] = "chunk_init"]
  /\ UNCHANGED << call, live, returned >>

\* one turn of the second loop of allocate
CacheInstall(t) ==
  /\ pc[t] = "install"
  /\ LET l == loc[t] IN
     IF KeepsHead(l.curr_head, l.next_head)
       THEN /\ IF l.next_head.size # 0
                 THEN InnerDeallocate(t, l.next_head.ptr, l.next_head.size)
                 ELSE Return(t, l.result)
            /\ UNCHANGED << head_, interfered >>
       ELSE IF HeadCasSucceeds(l.curr_head)
         THEN /\ head_' = l.next_head
              /\ Writes(t)
              /\ IF l.curr_head.size # 0
                   THEN InnerDeallocate(t, l.curr_head.ptr, l.curr_head.size)
                   ELSE Return(t, l.result)
         ELSE /\ loc' = [loc EXCEPT ![t].curr_head = head_]
              /\ Reads(t)
              /\ UNCHANGED << pc, call, live, returned, head_ >>
  /\ UNCHANGED << config_vars, upstream_vars, free_chunks, last_block_size_,
                  pool_vars, destroyed, budget >>

\* deallocate: if (!ptr || !size) return
CacheDeallocateIgnored(ptr, size) == ptr = NULL \/ size = 0

\* the caller gives back one of its allocations
CacheDeallocate(t) ==
  /\ kind = "cache" /\ CanCall(t)
  /\ \E a \in live[t] :
       /\ live' = [live EXCEPT ![t] = @ \ {a}]
       /\ IF CacheDeallocateIgnored(a.ptr, a.size)
            THEN /\ ImmediateCall(t, "deallocate", a.size, a.alignment,
                                  a.ptr, NULL)
                 /\ UNCHANGED << pc, loc >>
            ELSE /\ StartCall(t, "deallocate", a.size, a.alignment, a.ptr)
                 /\ loc' = [loc EXCEPT ![t].chunk =
                              [ptr |-> a.ptr, next |-> 0, size |-> a.size,
                               alignment |-> a.alignment],
                            ![t].ret_to = "caller"]
                 /\ pc' = [pc EXCEPT ![t] = "chunk_init"]
  /\ UNCHANGED << setup_vars, upstream_vars, cache_vars, pool_vars, destroyed,
                  returned >>

\* deallocate: new (ptr) free_chunk_t { .next = head_ref.load(relaxed), ... }
CacheChunkInit(t) ==
  /\ pc[t] = "chunk_init"
  /\ Reads(t)
  /\ loc' = [loc EXCEPT ![t].chunk.next = FreeChunksHead]
  /\ pc' = [pc EXCEPT ![t] = "push_chunk"]
  /\ UNCHANGED << config_vars, upstream_vars, cache_vars, pool_vars, destroyed,
                  call, live, returned, budget >>

\* faulty variant: the chunk is handed to the upstream as well
ForwardedUpstream(chunk) ==
  << [ptr |-> chunk.ptr, size |-> chunk.size, alignment |-> chunk.alignment] >>

\* deallocate: the upstream deallocate calls it makes, which are none
DeallocateReleases(chunk) == << >>

\* deallocate: one turn of the compare_exchange_weak loop
CachePushChunk(t) ==
  /\ pc[t] = "push_chunk"
  /\ LET c == loc[t].chunk IN
     IF FreeChunksHead = c.next
       THEN /\ free_chunks' =
                 << [ptr |-> c.ptr, size |-> c.size,
                     alignment |-> c.alignment] >> \o free_chunks
            /\ ups_deallocs' = ups_deallocs \o DeallocateReleases(c)
            /\ Writes(t)
            /\ Return(t, IF loc[t].ret_to = "allocate"
                           THEN loc[t].result ELSE NULL)
       ELSE /\ loc' = [loc EXCEPT ![t].chunk.next = FreeChunksHead]
            /\ Reads(t)
            /\ UNCHANGED << pc, call, live, returned, free_chunks,
                            ups_deallocs >>
  /\ UNCHANGED << config_vars, brk, blocks, head_, last_block_size_,
                  pool_vars, destroyed, budget >>

\* faulty variant: the chunk is sorted in but merged with no neighbour
InsertUnmerged(regions, chunk) ==
  LET below == { i \in 1..Len(regions) :
                   \A j \in 1..i : chunk.ptr > regions[j].ptr }
      prev == Cardinality(below)
  IN  SubSeq(regions, 1, prev) \o << chunk >>
        \o SubSeq(regions, prev + 1, Len(regions))

\* One turn of the outer loop of the destructor (and of merge_chunks): the
\* chunk is put into the address-sorted list of regions, merged with the
\* region that starts where it ends and with the one that ends where it
\* starts.
InsertMerged(regions, chunk) ==
  LET below == { i \in 1..Len(regions) :
                   \A j \in 1..i : chunk.ptr > regions[j].ptr }
      prev == Cardinality(below)        \* index of prev_region, 0 if null
      next == prev + 1                  \* index of next_region
      has_next == next <= Len(regions)
      merge_next == has_next /\ regions[next].ptr = RangeEnd(chunk)
      merged == IF merge_next
                  THEN [chunk EXCEPT !.size = @ + regions[next].size]
                  ELSE chunk
      tail == SubSeq(regions, IF merge_next THEN next + 1 ELSE next,
                     Len(regions))
  IN  IF prev = 0 THEN << merged >> \o tail
      ELSE IF RangeEnd(regions[prev]) = chunk.ptr
        THEN SubSeq(regions, 1, prev - 1)
               \o << [regions[prev] EXCEPT !.size = @ + merged.size] >>
               \o tail
      ELSE SubSeq(regions, 1, prev) \o << merged >> \o tail

\* the regions after the chunks of a list (first to last) have been put in
RECURSIVE MergeAll(_, _)
MergeAll(regions, chunks) ==
  IF chunks = << >> THEN regions
  ELSE MergeAll(InsertMerged(regions, Head(chunks)), Tail(chunks))

\* ~cache_resource_impl: the head counts as a deallocated region
HeadRegion(head) ==
  IF head.size # 0
    THEN << [ptr |-> head.ptr, size |-> head.size,
             alignment |-> DefaultPow2] >>
    ELSE << >>

\* ~cache_resource_impl: the regions passed to the upstream's deallocate
DestructorReleases(head, chunks) == MergeAll(HeadRegion(head), chunks)

\* ~cache_resource_impl, run when no call is in progress
CacheDestroy ==
  /\ kind = "cache" /\ ~destroyed
  /\ \A t \in DOMAIN pc : pc[t] = "idle"
  /\ destroyed' = TRUE
  /\ ups_deallocs' = ups_deallocs \o DestructorReleases(head_, free_chunks)
  /\ UNCHANGED << setup_vars, brk, blocks, cache_vars, pool_vars,
                  pc, loc, call, live, returned, budget >>

\* faulty variant: the block size hint is not copied
HintLeftBehind(value) == 0

\* copy_internals: last_block_size_ = rhs.last_block_size_
CopiedHint(value) == value

\* head_block_t{}
EmptyHead == [ptr |-> 0, size |-> 0]

\* cache_resource_impl(cache_resource_impl&& rhs), when no call is in
\* progress: from here on the variables of the cache are those of the new
\* instance and rhs is the instance it was constructed from
CacheMove ==
  /\ kind = "cache" /\ ~destroyed /\ ~rhs.moved
  /\ \A t \in DOMAIN pc : pc[t] = "idle"
  /\ head_' = head_
  /\ free_chunks' = free_chunks
  /\ last_block_size_' = CopiedHint(last_block_size_)
  /\ rhs' = [ moved |-> TRUE, head_ |-> EmptyHead, free_chunks |-> << >>,
              last_block_size_ |-> 0, destroyed |-> FALSE,
              former |-> Snapshot, calls_left |-> budget[MainThread],
              released |-> << >> ]
  /\ UNCHANGED << kind, workload, trace, ups, upstream_vars, pool_vars,
                  destroyed, pc, loc, call, live, returned, budget,
                  interfered >>

\* the destructor of the instance that was moved from
RhsDestroy ==
  /\ kind = "cache" /\ rhs.moved /\ ~rhs.destroyed
  /\ LET regions == DestructorReleases(rhs.head_, rhs.free_chunks)
     IN  /\ ups_deallocs' = ups_deallocs \o regions
         /\ rhs' = [rhs EXCEPT !.destroyed = TRUE, !.released = regions]
  /\ UNCHANGED << kind, workload, trace, ups, brk, blocks, cache_vars,
                  pool_vars, destroyed, pc, loc, call, live, returned,
                  budget, interfered >>

CacheStep(t) ==
  \/ CacheAllocate(t)
  \/ CacheLoadHeadPtr(t)
  \/ CacheLoadHeadSize(t)
  \/ CacheFastPath(t)
  \/ CacheNextBlockSize(t)
  \/ CacheUpstreamCall(t)
  \/ CacheUpstreamOk(t)
  \/ CacheUpstreamFailed(t)
  \/ CacheInstall(t)
  \/ CacheDeallocate(t)
  \/ CacheChunkInit(t)
  \/ CachePushChunk(t)

\* the state after the cache has been constructed over an upstream
CacheInit(threads, upstreams, requests, calls) ==
  /\ kind = "cache"
  /\ workload = requests
  /\ trace = (threads = {MainThread})
  /\ ups \in upstreams
  /\ rhs = NoRhs
  /\ brk = ArenaBase /\ blocks = << >> /\ ups_deallocs = << >>
  /\ head_ \in { [ptr |-> p, size |-> 0] : p \in UninitPtrs }
  /\ free_chunks = << >>
  /\ last_block_size_ = 0
  /\ chunk_stacks_ = << >> /\ mem_next = << >> /\ on_stack = << >>
  /\ destroyed = FALSE
  /\ pc = [t \in threads |-> "idle"]
  /\ loc = [t \in threads |-> NoLoc]
  /\ call = [t \in threads |-> NoCall]
  /\ live = [t \in threads |-> {}]
  /\ returned = {}
  /\ budget = [t \in threads |-> calls]
  /\ interfered = [t \in threads |-> FALSE]

\* several threads using one cache
InitCache ==
  CacheInit(Threads, CacheThreadUpstreams, CacheThreadRequests, MaxThreadOps)

NextCache == (\E t \in Threads : CacheStep(t)) \/ CacheDestroy

SpecCache == InitCache /\ [][NextCache]_vars

\* one thread using a cache that is move-constructed into a new instance at
\* some point
InitMove ==
  CacheInit({MainThread}, CacheUpstreams, CacheThreadRequests, MaxOps)

NextMove ==
  \/ CacheStep(MainThread)
  \/ CacheDestroy
  \/ CacheMove
  \/ RhsDestroy

SpecMove == InitMove /\ [][NextMove]_vars

-----------------------------------------------------------------------------
(* pool_resource_impl: configuration and the arithmetic of its calls *)

\* pool_resource_config
PoolCfg ==
  [ min_chunk_size |-> 16, max_chunk_size |-> 32,
    chunk_size_multiplier |-> 2 ]

\* resource_params of the upstream types the pool is instantiated with: no
\* limits, granular and bound, the latter two with a min_size that
\* min_chunk_size does not divide
PoolUpstreams ==
  { [min_size |-> 0,  is_granular |-> FALSE, alignment |-> 0],
    [min_size |-> 24, is_granular |-> TRUE,  alignment |-> 32],
    [min_size |-> 72, is_granular |-> FALSE, alignment |-> 0] }

\* the upstream type of the concurrent runs: the one without limits
PoolThreadUpstreams == { u \in PoolUpstreams : u.min_size = 0 }

\* What the caller of a sequential run asks the pool for: one and two
\* chunks, more than an upstream block and a size that is no multiple of
\* min_chunk_size, aligned as a chunk and above, and a chunk aligned above
\* anything an upstream guarantees.
PoolRequests ==
  [size : {16, 32, 80, 24}, alignment : {16, 32}]
    \cup { [size |-> 32, alignment |-> 64] }

\* What the threads of a concurrent run ask the pool for.
PoolThreadRequests ==
  { [size |-> 16, alignment |-> 16], [size |-> 32, alignment |-> 16] }

\* get_chunk_sizes(): the loop of log_mult stops one multiplication short
LogMultStopsEarly(cfg, value, prod) ==
  prod * cfg.chunk_size_multiplier < value /\ cfg.chunk_size_multiplier >= 2

\* get_chunk_sizes(): the loop of log_mult goes on while prod < value and
\* breaks at once for a multiplier below 2
LogMultContinues(cfg, value, prod) ==
  prod < value /\ cfg.chunk_size_multiplier >= 2

\* get_chunk_sizes(): log_mult for the configuration cfg
RECURSIVE LogMultOf(_, _, _, _)
LogMultOf(cfg, value, prod, result) ==
  IF LogMultContinues(cfg, value, prod)
  THEN LogMultOf(cfg, value, prod * cfg.chunk_size_multiplier, result + 1)
  ELSE result

\* get_chunk_sizes(): log_mult
log_mult(value, prod, result) == LogMultOf(PoolCfg, value, prod, result)

\* get_chunk_sizes(): the element with the (one-based) index i of the array
\* filled for the configuration cfg
RECURSIVE ChunkSizeOf(_, _)
ChunkSizeOf(cfg, i) ==
  IF i = 1 THEN cfg.min_chunk_size
  ELSE ChunkSizeOf(cfg, i - 1) * cfg.chunk_size_multiplier

\* the chunk size with the (one-based) id i
ChunkSize(i) == ChunkSizeOf(PoolCfg, i)

\* get_chunk_sizes() for the configuration cfg
get_chunk_sizes(cfg) ==
  LET count == 1 + LogMultOf(cfg, cfg.max_chunk_size \div cfg.min_chunk_size,
                             1, 0)
  IN  [i \in 1..count |-> ChunkSizeOf(cfg, i)]

\* get_chunk_sizes()
chunk_sizes == get_chunk_sizes(PoolCfg)

\* pow2_t{1} << std::countr_zero(value)
RECURSIVE MaxPow2Div(_)
MaxPow2Div(value) ==
  IF value % 2 # 0 THEN 1 ELSE 2 * MaxPow2Div(value \div 2)

\* get_upstream_alignment()
get_upstream_alignment ==
  Max(PoolCfg.min_chunk_size, guaranteed_alignment(ups))

\* get_chunk_alignment(id)
get_chunk_alignment(id) ==
  Min(MaxPow2Div(chunk_sizes[id]), get_upstream_alignment)

\* allocate: if (size % _cfg.min_chunk_size) return nullptr
PoolSizeRejected(size) == size % PoolCfg.min_chunk_size # 0

\* faulty variant: the size of the chunks is not looked at
FitsByAlignment(id, size, alignment) == get_chunk_alignment(id) >= alignment

\* faulty variant: the alignment of the chunks is not looked at
FitsBySize(id, size, alignment) == chunk_sizes[id] >= size

\* allocate: the chunks of stack id can hold the request
Fits(id, size, alignment) ==
  /\ chunk_sizes[id] >= size
  /\ \/ get_chunk_alignment(id) >= alignment
     \/ alignment - get_chunk_alignment(id) <= chunk_sizes[id] - size

\* allocate: the first stack to pop from, 0 if there is none
FirstStack(size, alignment) ==
  LET fitting == { id \in DOMAIN chunk_sizes : Fits(id, size, alignment) }
  IN  IF fitting = {} THEN 0
      ELSE CHOOSE id \in fitting : \A other \in fitting : id <= other

\* faulty variant: no room is asked for the padding
RequestSizeUnpadded(size, alignment) ==
  Max(size, PoolCfg.max_chunk_size * PoolCfg.chunk_size_multiplier)

\* allocate: the size asked of the upstream
RequestSize(size, alignment) ==
  LET max_padding == alignment - Min(alignment, get_upstream_alignment)
  IN  Max(max_padding + size,
          PoolCfg.max_chunk_size * PoolCfg.chunk_size_multiplier)

\* allocate_at_least(upstream_, size, alignment): the size that is asked
\* for and reported back
allocate_at_least(size) == ceil_allocation_size(ups, size)

\* deallocate: if (!ptr || size < _cfg.min_chunk_size) return
PoolDeallocateIgnored(ptr, size) ==
  ptr = NULL \/ size < PoolCfg.min_chunk_size

\* deallocate, first loop: the biggest chunk size above the smallest that
\* fits into [ptr, ptr + size) once aligned; 1 if there is none
BiggestChunk(ptr, size) ==
  LET fitting ==
        { i \in DOMAIN chunk_sizes :
            /\ i > 1
            /\ chunk_sizes[i] <= size
            /\ chunk_sizes[i]
                 + align_pointer(ptr, get_chunk_alignment(i)).padding
                   <= size }
  IN  IF fitting = {} THEN 1
      ELSE CHOOSE i \in fitting : \A other \in fitting : i >= other

\* faulty variant: lower_ptr is not moved past the chunk pushed
LowerChunkStays(lower_ptr, k, chunk_size) == lower_ptr

\* deallocate, second loop, lower part: where chunk number k of one size
\* starts, lower_ptr being advanced by chunk_size after each push
LowerChunkAt(lower_ptr, k, chunk_size) == lower_ptr + (k - 1) * chunk_size

\* deallocate, second loop from stack i down: the chunks pushed, in order
RECURSIVE PushesFrom(_, _, _, _, _)
PushesFrom(i, upper_ptr, upper_size, lower_ptr, lower_size) ==
  IF i = 0 THEN << >>
  ELSE
    LET chunk_size == chunk_sizes[i]
        uppers == upper_size \div chunk_size
        lowers == lower_size \div chunk_size
    IN  [k \in 1..uppers |->
           [stack_id |-> i, ptr |-> upper_ptr + upper_size - k * chunk_size]]
        \o [k \in 1..lowers |->
              [stack_id |-> i, ptr |-> LowerChunkAt(lower_ptr, k, chunk_size)]]
        \o PushesFrom(i - 1, upper_ptr, upper_size - uppers * chunk_size,
                      lower_ptr + lowers * chunk_size,
                      lower_size - lowers * chunk_size)

\* faulty variant: the range is split from its start, not from the first
\* address aligned for the biggest chunk
CarveUnaligned(ptr, size) ==
  IF PoolDeallocateIgnored(ptr, size) THEN << >>
  ELSE PushesFrom(BiggestChunk(ptr, size), ptr, 0, ptr, size)

\* deallocate(ptr, size): the chunks it pushes, in order
Carve(ptr, size) ==
  IF PoolDeallocateIgnored(ptr, size) THEN << >>
  ELSE
    LET i == BiggestChunk(ptr, size)
        aligned == align_pointer(ptr, get_chunk_alignment(i))
    IN  IF i > 1
          THEN PushesFrom(i, ptr, aligned.padding, aligned.result,
                          size - aligned.padding)
          ELSE PushesFrom(1, ptr, 0, ptr, size)

\* allocate_from_block: the pointer it returns and the chunks its two
\* deallocate calls push
allocate_from_block(block_ptr, block_size, size, alignment) ==
  LET aligned == align_pointer(block_ptr, alignment)
      left == block_size - aligned.padding - size
  IN  [ result |-> aligned.result,
        todo |-> (IF aligned.padding # 0
                    THEN Carve(block_ptr, aligned.padding) ELSE << >>)
                 \o (IF left # 0
                       THEN Carve(aligned.result + size, left) ELSE << >>) ]

-----------------------------------------------------------------------------
(* stack<T, _ts>: the lock-free stack of the pool *)

\* the addresses of the nodes the threads push and pop
Nodes == {4096, 4112, 4128}

\* what its holder may have written over the `next` field of a node
StaleNext == {NULL, ArenaBase}

\* the address lies in memory a caller holds
Held(ptr) ==
  \E a \in AllLive : a.ptr <= ptr /\ ptr < a.ptr + Max(a.size, 1)

\* stack(): head_{}
EmptyStack == [ptr |-> NULL, aba_counter |-> 0]

\* the programs that consist of a stack alone: stack<T, thread_safe> and
\* stack<T, thread_unsafe>
StackKinds == {"stack", "unsafe_stack"}

\* ptr->next as a thread reads it
NextValues(ptr) ==
  (IF ptr \in DOMAIN mem_next THEN {mem_next[ptr]} ELSE {})
    \cup (IF ptr \notin DOMAIN mem_next \/ Held(ptr) THEN StaleNext ELSE {})

\* the nodes reached from ptr by following `next`, at most fuel of them
RECURSIVE Walk(_, _)
Walk(ptr, fuel) ==
  IF ptr = NULL \/ fuel = 0 THEN << >>
  ELSE IF ptr \notin DOMAIN mem_next THEN << ptr >>
  ELSE << ptr >> \o Walk(mem_next[ptr], fuel - 1)

\* the linked list of stack id, head first
ListOf(id) ==
  Walk(chunk_stacks_[id].ptr, Cardinality(DOMAIN mem_next) + 1)

\* faulty variant: the heads are compared by pointer alone
StackCasByPointer(id, expected) == chunk_stacks_[id].ptr = expected.ptr

\* faulty variant: the head is stored without being compared
StackStoredBlindly(id, expected) == TRUE

\* mem_ref<head_t>::compare_exchange_weak on the head of stack id succeeds
StackCasSucceeds(id, expected) == chunk_stacks_[id] = expected

\* faulty variant: a failed compare-and-swap leaves the expected value alone
ExpectedKept(id, expected) == expected

\* mem_ref<head_t>::compare_exchange_weak on the head of stack id fails: the
\* expected value is replaced by the value of the head
ExpectedReloaded(id, expected) == chunk_stacks_[id]

\* push: new_head as the loop body leaves it
PushedHead(ptr, old_head) ==
  [ptr |-> ptr, aba_counter |-> old_head.aba_counter + 1]

\* pop: new_head as the loop body leaves it
PoppedHead(next, old_head) ==
  [ptr |-> next, aba_counter |-> old_head.aba_counter + 1]

\* thread t, its locals being l, goes on to push the chunks of todo and
\* then returns result
ContinuePushes(t, l, todo, result) ==
  IF todo = << >>
    THEN Return(t, result)
    ELSE /\ loc' = [loc EXCEPT ![t] =
                      [l EXCEPT !.todo = Tail(todo),
                                !.stack_id = Head(todo).stack_id,
                                !.chunk = [NoChunk EXCEPT
                                             !.ptr = Head(todo).ptr]]]
         /\ pc' = [pc EXCEPT ![t] = "push_load_ptr"]
         /\ UNCHANGED << call, live, returned >>

\* push: .ptr = make_mem_ref(head_.ptr).load(relaxed)
PushLoadPtr(t) ==
  /\ pc[t] = "push_load_ptr"
  /\ Reads(t)
  /\ loc' = [loc EXCEPT ![t].old_head.ptr =
               chunk_stacks_[loc[t].stack_id].ptr]
  /\ pc' = [pc EXCEPT ![t] = "push_load_counter"]
  /\ UNCHANGED << config_vars, upstream_vars, cache_vars, pool_vars, destroyed,
                  call, live, returned, budget >>

\* push: .aba_counter = make_mem_ref(head_.aba_counter).load(relaxed)
PushLoadCounter(t) ==
  /\ pc[t] = "push_load_counter"
  /\ loc' = [loc EXCEPT ![t].old_head.aba_counter =
               chunk_stacks_[loc[t].stack_id].aba_counter]
  /\ pc' = [pc EXCEPT ![t] = "push_store_next"]
  /\ UNCHANGED << setup_vars, upstream_vars, cache_vars, pool_vars, destroyed,
                  call, live, returned, budget >>

\* push: next_ref.store(old_head.ptr, relaxed) and the new counter
PushStoreNext(t) ==
  /\ pc[t] = "push_store_next"
  /\ LET l == loc[t] IN
     /\ mem_next' = [a \in DOMAIN mem_next \cup {l.chunk.ptr} |->
                       IF a = l.chunk.ptr THEN l.old_head.ptr
                       ELSE mem_next[a]]
     /\ loc' = [loc EXCEPT ![t].new_head =
                  PushedHead(l.chunk.ptr, l.old_head)]
  /\ pc' = [pc EXCEPT ![t] = "push_cas"]
  /\ UNCHANGED << setup_vars, upstream_vars, cache_vars, chunk_stacks_,
                  on_stack, destroyed, call, live, returned, budget >>

\* push: one compare_exchange_weak on the head
PushCas(t) ==
  /\ pc[t] = "push_cas"
  /\ LET l == loc[t] IN
     IF StackCasSucceeds(l.stack_id, l.old_head)
       THEN /\ chunk_stacks_' = [chunk_stacks_ EXCEPT ![l.stack_id] =
                                   l.new_head]
            /\ on_stack' = [on_stack EXCEPT ![l.stack_id] =
                              @ \cup {l.chunk.ptr}]
            /\ Writes(t)
            /\ ContinuePushes(t, l, l.todo, l.result)
       ELSE /\ loc' = [loc EXCEPT ![t].old_head =
                         ExpectedReloaded(l.stack_id, l.old_head)]
            /\ Reads(t)
            /\ pc' = [pc EXCEPT ![t] = "push_store_next"]
            /\ UNCHANGED << chunk_stacks_, on_stack, call, live, returned >>
  /\ UNCHANGED << config_vars, upstream_vars, cache_vars, mem_next, destroyed,
                  budget >>

\* pop: .ptr = make_mem_ref(head_.ptr).load(acquire)
PopLoadPtr(t) ==
  /\ pc[t] = "pop_load_ptr"
  /\ Reads(t)
  /\ loc' = [loc EXCEPT ![t].old_head.ptr =
               chunk_stacks_[loc[t].stack_id].ptr]
  /\ pc' = [pc EXCEPT ![t] = "pop_load_counter"]
  /\ UNCHANGED << config_vars, upstream_vars, cache_vars, pool_vars, destroyed,
                  call, live, returned, budget >>

\* pop: .aba_counter = make_mem_ref(head_.aba_counter).load(relaxed)
PopLoadCounter(t) ==
  /\ pc[t] = "pop_load_counter"
  /\ loc' = [loc EXCEPT ![t].old_head.aba_counter =
               chunk_stacks_[loc[t].stack_id].aba_counter]
  /\ pc' = [pc EXCEPT ![t] = "pop_read_next"]
  /\ UNCHANGED << setup_vars, upstream_vars, cache_vars, pool_vars, destroyed,
                  call, live, returned, budget >>

\* faulty variant: only the first adequate stack is tried
StopsAtFirstStack(stack_id) == FALSE

\* allocate: while (++stack_id < chunk_stacks_.size())
HasNextStack(stack_id) == stack_id < Len(chunk_stacks_)

\* the pop of thread t has found its stack empty
PopFoundNothing(t) ==
  IF kind \in StackKinds
    THEN Return(t, NULL)
  ELSE IF HasNextStack(loc[t].stack_id)
    THEN /\ loc' = [loc EXCEPT ![t].stack_id = @ + 1,
                               ![t].old_head = NoStackHead]
         /\ pc' = [pc EXCEPT ![t] = "pop_load_ptr"]
         /\ UNCHANGED << call, live, returned >>
  ELSE /\ pc' = [pc EXCEPT ![t] = "pool_upstream"]
       /\ UNCHANGED << loc, call, live, returned >>

\* pop: the body of the loop, which reads old_head.ptr->next
PopReadNext(t) ==
  /\ pc[t] = "pop_read_next"
  /\ LET l == loc[t] IN
     IF l.old_head.ptr = NULL
       THEN PopFoundNothing(t)
       ELSE /\ \E next \in NextValues(l.old_head.ptr) :
                 loc' = [loc EXCEPT ![t].new_head =
                           PoppedHead(next, l.old_head)]
            /\ pc' = [pc EXCEPT ![t] = "pop_cas"]
            /\ UNCHANGED << call, live, returned >>
  /\ UNCHANGED << setup_vars, upstream_vars, cache_vars, pool_vars, destroyed,
                  budget >>

\* pop: one compare_exchange_weak on the head
PopCas(t) ==
  /\ pc[t] = "pop_cas"
  /\ LET l == loc[t]
         node == l.old_head.ptr
     IN
     IF StackCasSucceeds(l.stack_id, l.old_head)
       THEN /\ chunk_stacks_' = [chunk_stacks_ EXCEPT ![l.stack_id] =
                                   l.new_head]
            /\ on_stack' = [on_stack EXCEPT ![l.stack_id] = @ \ {node}]
            /\ Writes(t)
            /\ IF kind \in StackKinds
                 THEN Return(t, node)
                 ELSE /\ loc' = [loc EXCEPT ![t].block =
                                   [ptr |-> node,
                                    size |-> chunk_sizes[l.stack_id]]]
                      /\ pc' = [pc EXCEPT ![t] = "pool_block"]
                      /\ UNCHANGED << call, live, returned >>
       ELSE /\ loc' = [loc EXCEPT ![t].old_head =
                         ExpectedReloaded(l.stack_id, l.old_head)]
            /\ Reads(t)
            /\ pc' = [pc EXCEPT ![t] = "pop_read_next"]
            /\ UNCHANGED << chunk_stacks_, on_stack, call, live, returned >>
  /\ UNCHANGED << config_vars, upstream_vars, cache_vars, mem_next, destroyed,
                  budget >>

\* a thread pushes a node it holds
StackPush(t) ==
  /\ kind \in StackKinds /\ CanCall(t)
  /\ \E a \in live[t], id \in DOMAIN chunk_stacks_ :
       /\ live' = [live EXCEPT ![t] = @ \ {a}]
       /\ StartCall(t, "push", 0, 0, a.ptr)
       /\ loc' = [loc EXCEPT ![t].stack_id = id,
                             ![t].chunk = [NoChunk EXCEPT !.ptr = a.ptr]]
       /\ pc' = [pc EXCEPT ![t] = "push_load_ptr"]
  /\ UNCHANGED << setup_vars, upstream_vars, cache_vars, pool_vars, destroyed,
                  returned >>

\* a thread pops a node
StackPop(t) ==
  /\ kind \in StackKinds /\ CanCall(t)
  /\ StartCall(t, "pop", 0, 0, 0)
  /\ \E id \in DOMAIN chunk_stacks_ :
       loc' = [loc EXCEPT ![t].stack_id = id]
  /\ pc' = [pc EXCEPT ![t] = "pop_load_ptr"]
  /\ UNCHANGED << setup_vars, upstream_vars, cache_vars, pool_vars, destroyed,
                  live, returned >>

StackStep(t) ==
  \/ PushLoadPtr(t)
  \/ PushLoadCounter(t)
  \/ PushStoreNext(t)
  \/ PushCas(t)
  \/ PopLoadPtr(t)
  \/ PopLoadCounter(t)
  \/ PopReadNext(t)
  \/ PopCas(t)

\* a stack and the nodes the threads start with
InitStack ==
  /\ kind = "stack"
  /\ workload = {}
  /\ trace = FALSE
  /\ ups \in CacheThreadUpstreams
  /\ rhs = NoRhs
  /\ brk = ArenaBase /\ blocks = << >> /\ ups_deallocs = << >>
  /\ head_ = NoHead /\ free_chunks = << >> /\ last_block_size_ = 0
  /\ chunk_stacks_ = << EmptyStack >>
  /\ mem_next = << >>
  /\ on_stack = << {} >>
  /\ destroyed = FALSE
  /\ pc = [t \in Threads |-> "idle"]
  /\ loc = [t \in Threads |-> NoLoc]
  /\ call = [t \in Threads |-> NoCall]
  /\ \E owner \in [Nodes -> Threads] :
       live = [t \in Threads |->
                 { [ptr |-> n, size |-> 0, alignment |-> 0, clash |-> FALSE] :
                     n \in { m \in Nodes : owner[m] = t } }]
  /\ returned = {}
  /\ budget = [t \in Threads |-> MaxStackOps]
  /\ interfered = [t \in Threads |-> FALSE]

NextStack == \E t \in Threads : StackPush(t) \/ StackPop(t) \/ StackStep(t)

SpecStack == InitStack /\ [][NextStack]_vars

\* C3: in every interleaving of the pushes and pops of several threads, a
\* pop only returns a node that was pushed and not popped since, so no node
\* is handed out twice without a push in between, and when no operation is
\* in progress the list hanging off the head holds exactly the nodes pushed
\* and not popped, each once.
StackAbaSafety ==
  kind = "stack" =>
    /\ \A a \in AllLive : ~a.clash
    /\ (\A t \in DOMAIN pc : pc[t] = "idle") =>
         /\ SeqToSet(ListOf(1)) = on_stack[1]
         /\ Len(ListOf(1)) = Cardinality(on_stack[1])

\* a pop is about to compare-and-swap with the pointer it has loaded back on
\* top of the stack, after that node was popped and pushed again over a
\* different successor
StackAbaWitness ==
  \E t \in DOMAIN pc :
    /\ kind = "stack" /\ pc[t] = "pop_cas"
    /\ loc[t].old_head.ptr = chunk_stacks_[1].ptr
    /\ loc[t].old_head.aba_counter # chunk_stacks_[1].aba_counter
    /\ mem_next[loc[t].old_head.ptr] # loc[t].new_head.ptr

-----------------------------------------------------------------------------
(* pool_resource_impl: the calls *)

PoolAllocate(t) ==
  /\ kind = "pool" /\ CanCall(t)
  /\ \E r \in workload :
       IF PoolSizeRejected(r.size)
         THEN /\ ImmediateCall(t, "allocate", r.size, r.alignment, 0, NULL)
              /\ UNCHANGED << pc, loc >>
         ELSE /\ StartCall(t, "allocate", r.size, r.alignment, 0)
              /\ LET id == FirstStack(r.size, r.alignment) IN
                 /\ loc' = [loc EXCEPT ![t].size = r.size,
                                       ![t].alignment = r.alignment,
                                       ![t].stack_id = id]
                 /\ pc' = [pc EXCEPT ![t] =
                             IF id = 0 THEN "pool_upstream"
                             ELSE "pop_load_ptr"]
  /\ UNCHANGED << setup_vars, upstream_vars, cache_vars, pool_vars, destroyed,
                  live, returned >>

\* allocate: allocate_at_least(upstream_, req_size, _cfg.min_chunk_size)
PoolUpstream(t) ==
  /\ pc[t] = "pool_upstream"
  /\ LET l == loc[t]
         req_size == RequestSize(l.size, l.alignment)
         alloc_size == allocate_at_least(req_size)
         request == [size |-> alloc_size,
                     alignment |-> PoolCfg.min_chunk_size,
                     next_size |-> req_size]
     IN  /\ NoteUpstreamCall(t, request)
         /\ \/ /\ Len(blocks) < MaxBlocks
               /\ \E gap \in Gaps :
                    LET result == mock_allocate(gap, request.alignment) IN
                    /\ UpstreamTakes(result, alloc_size, request.alignment)
                    /\ loc' = [loc EXCEPT ![t].block =
                                 [ptr |-> result, size |-> alloc_size]]
            \/ /\ loc' = [loc EXCEPT ![t].block = NoHead]
               /\ UNCHANGED << upstream_vars >>
  /\ pc' = [pc EXCEPT ![t] = "pool_block"]
  /\ UNCHANGED << setup_vars, cache_vars, pool_vars, destroyed,
                  live, returned, budget >>

\* faulty variant: a request the upstream has failed is made once more
PoolRetry(t) ==
  /\ pc' = [pc EXCEPT ![t] = "pool_upstream"]
  /\ UNCHANGED << loc, call, live, returned >>

\* allocate: if (!alloc_result) return nullptr
PoolReturnNull(t) == Return(t, NULL)

\* allocate: allocate_from_block on the chunk popped or the block obtained,
\* or nullptr if the upstream has failed
PoolBlock(t) ==
  /\ pc[t] = "pool_block"
  /\ LET l == loc[t] IN
     IF l.block.ptr = NULL
       THEN PoolReturnNull(t)
       ELSE LET from_block == allocate_from_block(l.block.ptr, l.block.size,
                                                  l.size, l.alignment)
            IN  ContinuePushes(t, [l EXCEPT !.result = from_block.result],
                               from_block.todo, from_block.result)
  /\ UNCHANGED << setup_vars, upstream_vars, cache_vars, pool_vars, destroyed,
                  budget >>

\* the caller gives back one of its allocations
PoolDeallocate(t) ==
  /\ kind = "pool" /\ CanCall(t)
  /\ \E a \in live[t] :
       /\ live' = [live EXCEPT ![t] = @ \ {a}]
       /\ IF PoolDeallocateIgnored(a.ptr, a.size)
            THEN /\ ImmediateCall(t, "deallocate", a.size, a.alignment,
                                  a.ptr, NULL)
                 /\ UNCHANGED << pc, loc >>
            ELSE LET todo == Carve(a.ptr, a.size) IN
                 /\ StartCall(t, "deallocate", a.size, a.alignment, a.ptr)
                 /\ loc' = [loc EXCEPT ![t].todo = Tail(todo),
                                       ![t].stack_id = Head(todo).stack_id,
                                       ![t].chunk = [NoChunk EXCEPT
                                                       !.ptr = Head(todo).ptr]]
                 /\ pc' = [pc EXCEPT ![t] = "push_load_ptr"]
  /\ UNCHANGED << setup_vars, upstream_vars, cache_vars, pool_vars, destroyed,
                  returned >>

\* merge_chunks(head, chunk_size, merged_head): the chunks of one stack,
\* each of chunk_size bytes, are merged into the regions
MergeStack(id, regions) ==
  LET list == ListOf(id)
  IN  MergeAll(regions,
               [k \in 1..Len(list) |->
                  [ptr |-> list[k], size |-> chunk_sizes[id],
                   alignment |-> PoolCfg.min_chunk_size]])

\* ~pool_resource_impl, first loop: the stacks 1..id merged
RECURSIVE MergedUpTo(_)
MergedUpTo(id) ==
  IF id = 0 THEN << >> ELSE MergeStack(id, MergedUpTo(id - 1))

\* ~pool_resource_impl, second loop: the size passed to the upstream
DeallocatedSize(size) == ceil_allocation_size(ups, size)

\* ~pool_resource_impl, run when no call is in progress
PoolDestroy ==
  /\ kind = "pool" /\ ~destroyed
  /\ \A t \in DOMAIN pc : pc[t] = "idle"
  /\ destroyed' = TRUE
  /\ LET merged == MergedUpTo(Len(chunk_stacks_))
     IN  ups_deallocs' = ups_deallocs \o
           [k \in 1..Len(merged) |->
              [merged[k] EXCEPT !.size = DeallocatedSize(@)]]
  /\ chunk_stacks_' = [i \in DOMAIN chunk_stacks_ |-> EmptyStack]
  /\ on_stack' = [i \in DOMAIN on_stack |-> {}]
  /\ UNCHANGED << setup_vars, brk, blocks, cache_vars, mem_next,
                  pc, loc, call, live, returned, budget >>

PoolStep(t) ==
  \/ PoolAllocate(t)
  \/ PoolUpstream(t)
  \/ PoolBlock(t)
  \/ PoolDeallocate(t)
  \/ StackStep(t)

\* the state after the pool has been constructed over an upstream
PoolInit(threads, upstreams, requests, calls) ==
  /\ kind = "pool"
  /\ workload = requests
  /\ trace = (threads = {MainThread})
  /\ ups \in upstreams
  /\ rhs = NoRhs
  /\ brk = ArenaBase /\ blocks = << >> /\ ups_deallocs = << >>
  /\ head_ = NoHead /\ free_chunks = << >> /\ last_block_size_ = 0
  /\ chunk_stacks_ = [i \in DOMAIN chunk_sizes |-> EmptyStack]
  /\ mem_next = << >>
  /\ on_stack = [i \in DOMAIN chunk_sizes |-> {}]
  /\ destroyed = FALSE
  /\ pc = [t \in threads |-> "idle"]
  /\ loc = [t \in threads |-> NoLoc]
  /\ call = [t \in threads |-> NoCall]
  /\ live = [t \in threads |-> {}]
  /\ returned = {}
  /\ budget = [t \in threads |-> calls]
  /\ interfered = [t \in threads |-> FALSE]

\* several threads using one pool
InitPool ==
  PoolInit(Threads, PoolThreadUpstreams, PoolThreadRequests, MaxThreadOps)

NextPool == (\E t \in Threads : PoolStep(t)) \/ PoolDestroy

SpecPool == InitPool /\ [][NextPool]_vars

\* one thread using a cache or a pool over any of the upstream types
InitSeq ==
  \/ CacheInit({MainThread}, CacheUpstreams, CacheRequests, MaxOps)
  \/ PoolInit({MainThread}, PoolUpstreams, PoolRequests, MaxOps)

NextSeq ==
  \/ CacheStep(MainThread)
  \/ CacheDestroy
  \/ PoolStep(MainThread)
  \/ PoolDestroy

SpecSeq == InitSeq /\ [][NextSeq]_vars

-----------------------------------------------------------------------------
(* Properties of the block cache *)

RECURSIVE SumSizes(_)
SumSizes(regions) ==
  IF regions = << >> THEN 0
  ELSE Head(regions).size + SumSizes(Tail(regions))

RECURSIVE SumBlockSizes(_)
SumBlockSizes(indices) ==
  IF indices = {} THEN 0
  ELSE LET i == CHOOSE j \in indices : TRUE
       IN  blocks[i].size + SumBlockSizes(indices \ {i})

\* the upstream blocks that lie inside the range d
BlocksInside(d) == { i \in 1..Len(blocks) : Inside(blocks[i], d) }

\* the blocks of the set tile the range d: the first starts where d starts
\* and each ends where another one starts or where d ends
IsRunOfBlocks(indices, d) ==
  /\ \E i \in indices : blocks[i].ptr = d.ptr
  /\ \A i \in indices :
        \/ RangeEnd(blocks[i]) = RangeEnd(d)
        \/ \E j \in indices : blocks[j].ptr = RangeEnd(blocks[i])
  /\ SumBlockSizes(indices) = d.size

\* C1: in every interleaving of the calls of several threads on one cache,
\* the ranges successful allocate calls have returned are pairwise disjoint
\* and each lies inside one block the upstream has handed to the cache.
CacheNoOverlap ==
  /\ \A a, b \in returned : a # b => Disjoint(a, b)
  /\ \A a \in returned : \E i \in 1..Len(blocks) : Inside(a, blocks[i])

\* two threads hold ranges that were cut from the same upstream block
CacheNoOverlapWitness ==
  /\ kind = "cache" /\ ~trace
  /\ \E t, u \in DOMAIN live : \E a \in live[t], b \in live[u] :
        /\ t # u
        /\ \E i \in 1..Len(blocks) :
              Inside(a, blocks[i]) /\ Inside(b, blocks[i])

\* C4: when every allocation has been given back before the cache is
\* destroyed, the upstream deallocate calls of the destructor each start at
\* the start of an upstream block and span a run of adjacent blocks, every
\* block lies in exactly one of them, and the sizes deallocated add up to the
\* sizes allocated.
CacheTeardownConservation ==
  (kind = "cache" /\ destroyed /\ AllLive = {}) =>
    /\ \A k \in 1..Len(ups_deallocs) :
          IsRunOfBlocks(BlocksInside(ups_deallocs[k]), ups_deallocs[k])
    /\ \A i \in 1..Len(blocks) :
          Cardinality({ k \in 1..Len(ups_deallocs) :
                          ~Disjoint(blocks[i], ups_deallocs[k]) }) = 1
    /\ SumSizes(ups_deallocs) = SumSizes(blocks)

\* a cache is destroyed after two adjacent blocks, cut into several chunks,
\* have all been given back: one upstream deallocate call covers both
CacheTeardownWitness ==
  /\ kind = "cache" /\ destroyed /\ AllLive = {}
  /\ Len(blocks) = 2 /\ Len(ups_deallocs) = 1
  /\ Len(free_chunks) >= 3

\* C6: a pointer a cache allocate call returns is a multiple of the
\* requested alignment and of the granularity, whether it comes from the
\* head or from a fresh upstream block.
CacheAlignment ==
  \A t \in DOMAIN call :
    (kind = "cache" /\ call[t].op = "allocate" /\ call[t].done
       /\ call[t].res # NULL) =>
      /\ call[t].res % call[t].alignment = 0
      /\ call[t].res % CacheCfg.granularity = 0

\* an allocate asking for more than the granularity's alignment has been
\* served from the head, without an upstream call
CacheAlignmentWitness ==
  \E t \in DOMAIN call :
    /\ kind = "cache" /\ call[t].op = "allocate" /\ call[t].done
    /\ call[t].res # NULL
    /\ call[t].alignment > CacheCfg.granularity
    /\ call[t].upstream_calls = << >>
    /\ call[t].res = call[t].snapshot.head.ptr

\* C9: an allocate that returns null because the upstream failed leaves the
\* head and the free list as they were when it was called, and the allocate
\* that follows it, if its size and alignment fit the head, returns the
\* head's pointer without calling the upstream.
CacheFailureKeepsState ==
  \A t \in DOMAIN call :
    /\ (kind = "cache" /\ UpstreamMadeFail(call[t])) =>
         /\ head_ = call[t].snapshot.head
         /\ free_chunks = call[t].snapshot.free
    /\ (kind = "cache" /\ call[t].op = "allocate" /\ call[t].done
          /\ call[t].after_failure
          /\ ~CacheSizeRejected(call[t].size)
          /\ call[t].snapshot.head.size >= call[t].size
          /\ call[t].snapshot.head.ptr % call[t].alignment = 0) =>
         /\ call[t].res = call[t].snapshot.head.ptr
         /\ call[t].upstream_calls = << >>

\* after a failed allocate that found a non-empty head, an allocate of
\* exactly the head's size has been served from the head
CacheFailureWitness ==
  \E t \in DOMAIN call :
    /\ kind = "cache" /\ call[t].op = "allocate" /\ call[t].done
    /\ call[t].after_failure
    /\ call[t].snapshot.head.size = call[t].size
    /\ call[t].res = call[t].snapshot.head.ptr
    /\ call[t].upstream_calls = << >>

\* the size a request of an allocate call had before it was ceiled
Unceiled(c, request) ==
  IF request.size > ceil_allocation_size(ups, request.next_size)
    THEN c.size ELSE request.next_size

\* C10: every upstream request of a cache allocate call asks for at least
\* the size of the call and, before ceiling, for at least min_block_size;
\* when the size reduced after a failure would be below the size of the
\* call, the call returns null and makes no further request.
CacheStepDownFloor ==
  \A t \in DOMAIN call :
    (kind = "cache" /\ call[t].op = "allocate") =>
      LET c == call[t]
          n == Len(c.upstream_calls)
      IN  /\ \A i \in 1..n :
                /\ c.upstream_calls[i].size >= c.size
                /\ Unceiled(c, c.upstream_calls[i]) >= CacheCfg.min_block_size
          /\ \A i \in 1..n :
                (i < n \/ pc[t] = "upstream_call") =>
                  ceil_allocation_size(ups,
                    get_prev_block_size(c.upstream_calls[i].next_size))
                      >= c.size

\* an allocate has returned null after a failed request above
\* min_block_size, because the next smaller block would not hold it
CacheStepDownWitness ==
  \E t \in DOMAIN call :
    /\ kind = "cache" /\ UpstreamMadeFail(call[t])
    /\ LET last == call[t].upstream_calls[Len(call[t].upstream_calls)]
       IN  /\ last.size <= ceil_allocation_size(ups, last.next_size)
           /\ last.next_size > CacheCfg.min_block_size
           /\ ceil_allocation_size(ups, get_prev_block_size(last.next_size))
                 < call[t].size

-----------------------------------------------------------------------------
(* Properties of the pool *)

\* C2: in every interleaving of the calls of several threads on one pool,
\* the allocations the callers hold at any moment are pairwise disjoint and
\* each lies inside a block obtained from the upstream; none was handed out
\* while a caller still held memory it overlaps.
PoolNoOverlap ==
  kind = "pool" =>
    /\ \A a \in AllLive :
         /\ ~a.clash
         /\ \E i \in 1..Len(blocks) : Inside(a, blocks[i])
    /\ \A t, u \in DOMAIN live : \A a \in live[t], b \in live[u] :
         (t # u \/ a # b) => Disjoint(a, b)

\* two threads hold allocations that were both served from chunks popped
\* off a stack
PoolNoOverlapWitness ==
  /\ kind = "pool" /\ ~trace
  /\ \E t, u \in DOMAIN live : \E a \in live[t], b \in live[u] :
        /\ t # u
        /\ a.ptr \in DOMAIN mem_next /\ b.ptr \in DOMAIN mem_next

\* C5: when every allocation has been given back before the pool is
\* destroyed, each upstream deallocate call of the destructor passes
\* min_chunk_size as alignment, starts at the start of an upstream block and
\* has the total size of the adjacent blocks it covers, and every block is
\* covered by exactly one call.
PoolTeardownConservation ==
  (kind = "pool" /\ destroyed /\ AllLive = {}) =>
    /\ \A k \in 1..Len(ups_deallocs) :
          /\ ups_deallocs[k].alignment = PoolCfg.min_chunk_size
          /\ IsRunOfBlocks(BlocksInside(ups_deallocs[k]), ups_deallocs[k])
    /\ \A i \in 1..Len(blocks) :
          Cardinality({ k \in 1..Len(ups_deallocs) :
                          ~Disjoint(blocks[i], ups_deallocs[k]) }) = 1
    /\ SumSizes(ups_deallocs) = SumSizes(blocks)

\* C7: a pointer a pool allocate call returns is a multiple of the requested
\* alignment and of min_chunk_size, and the range it starts lies inside the
\* chunk that was popped or the block that was obtained for the call.
PoolAlignmentContainment ==
  \A t \in DOMAIN call :
    (kind = "pool" /\ call[t].op = "allocate" /\ call[t].done
       /\ call[t].res # NULL) =>
      /\ call[t].res % call[t].alignment = 0
      /\ call[t].res % PoolCfg.min_chunk_size = 0
      /\ Inside([ptr |-> call[t].res, size |-> call[t].size], call[t].source)
      /\ IF call[t].upstream_calls = << >>
           THEN \E id \in DOMAIN chunk_sizes :
                  /\ id >= FirstStack(call[t].size, call[t].alignment)
                  /\ call[t].source.size = chunk_sizes[id]
           ELSE \E i \in 1..Len(blocks) :
                  /\ blocks[i].ptr = call[t].source.ptr
                  /\ blocks[i].size = call[t].source.size

\* an allocate has been served from a chunk of a bigger size than the first
\* size that fits it, whose stack it must have found empty
PoolContainmentWitness ==
  \E t \in DOMAIN call :
    /\ kind = "pool" /\ call[t].op = "allocate" /\ call[t].done
    /\ call[t].res # NULL
    /\ call[t].upstream_calls = << >>
    /\ FirstStack(call[t].size, call[t].alignment) > 0
    /\ call[t].source.size
         > chunk_sizes[FirstStack(call[t].size, call[t].alignment)]

\* the unit the sizes of the resource's allocations must be multiples of
ConfiguredUnit ==
  IF kind = "cache" THEN CacheCfg.granularity ELSE PoolCfg.min_chunk_size

\* C8: an allocate whose size is no multiple of the configured unit returns
\* null, makes no upstream call and leaves the head, the free list, the
\* chunk stacks and the block size hint as they were (the state is looked
\* at until the next call or the destructor changes it).
GranularityRejection ==
  \A t \in DOMAIN call :
    (kind \in {"cache", "pool"} /\ ~destroyed /\ call[t].op = "allocate"
       /\ call[t].size % ConfiguredUnit # 0) =>
      /\ call[t].done /\ call[t].res = NULL
      /\ call[t].upstream_calls = << >>
      /\ Len(blocks) = call[t].snapshot.blocks
      /\ head_ = call[t].snapshot.head
      /\ free_chunks = call[t].snapshot.free
      /\ last_block_size_ = call[t].snapshot.hint
      /\ chunk_stacks_ = call[t].snapshot.stacks

\* a pool with chunks on its stacks has rejected an allocate
GranularityRejectionWitness ==
  \E t \in DOMAIN call :
    /\ kind = "pool" /\ call[t].op = "allocate" /\ call[t].done
    /\ call[t].size % PoolCfg.min_chunk_size # 0
    /\ call[t].res = NULL
    /\ \E id \in DOMAIN chunk_stacks_ : chunk_stacks_[id].ptr # NULL
    /\ AllLive # {}

\* the pool allocate call c asks for exactly one chunk of some size
OneChunk(c) == \E k \in DOMAIN chunk_sizes : chunk_sizes[k] = c.size

\* the pool allocate call c follows the deallocate of an allocation of the
\* same size that had been asked for with the same alignment
RoundTrip(c) ==
  /\ c.op = "allocate" /\ OneChunk(c)
  /\ c.previous.op = "deallocate"
  /\ c.previous.size = c.size /\ c.previous.alignment = c.alignment

\* the call c has made no upstream call and, if it is over, has succeeded
ServedFromStacks(c) ==
  /\ c.upstream_calls = << >>
  /\ c.done => c.res # NULL

\* the bytes a set of allocations takes up
RECURSIVE SumLive(_)
SumLive(allocations) ==
  IF allocations = {} THEN 0
  ELSE LET a == CHOOSE b \in allocations : TRUE
       IN  a.size + SumLive(allocations \ {a})

\* the bytes of the first upstream block that chunks can be made of
FirstBlockCapacity ==
  (blocks[1].size \div PoolCfg.min_chunk_size) * PoolCfg.min_chunk_size

\* every call thread t has made before the one it is in was an allocate that
\* succeeded, none of them asking for more than the alignment of a chunk
OnlyAllocatedSoFar(t) ==
  /\ Cardinality(live[t]) = MaxOps - budget[t] - 1
  /\ \A a \in live[t] : a.alignment <= PoolCfg.min_chunk_size

\* C11 as claimed: after allocate(chunk_sizes[k], a) and the deallocate of
\* its result, allocate(chunk_sizes[k], a) succeeds without an upstream call,
\* whatever the alignment a.
PoolReuseAnyAlignment ==
  \A t \in DOMAIN call :
    (kind = "pool" /\ trace /\ RoundTrip(call[t])) =>
      ServedFromStacks(call[t])

\* C11: in a single-threaded run, after allocate(chunk_sizes[k], a) and the
\* deallocate of its result, allocate(chunk_sizes[k], a) succeeds without an
\* upstream call if class k is adequate for the alignment a; an allocate
\* makes no upstream call when the stack of the first adequate size class or
\* of a larger one is not empty; and allocations aligned as a chunk that
\* together fit the first upstream block are served without a second
\* upstream call.
PoolReuse ==
  \A t \in DOMAIN call :
    (kind = "pool" /\ trace /\ call[t].op = "allocate") =>
      LET c == call[t]
          first == FirstStack(c.size, c.alignment)
      IN  /\ (RoundTrip(c) /\ first > 0 /\ chunk_sizes[first] = c.size) =>
                ServedFromStacks(c)
          /\ (/\ ~PoolSizeRejected(c.size)
              /\ first > 0
              /\ \E id \in first..Len(c.snapshot.stacks) :
                    c.snapshot.stacks[id].ptr # NULL) =>
                ServedFromStacks(c)
          /\ (/\ ~c.done
              /\ c.snapshot.blocks = 1
              /\ OnlyAllocatedSoFar(t)
              /\ c.alignment <= PoolCfg.min_chunk_size
              /\ SumLive(live[t]) + c.size <= FirstBlockCapacity) =>
                c.upstream_calls = << >>

\* an allocate that followed the deallocate of an allocation of its size and
\* alignment has been handed the chunk on top of the stack of its class
PoolReuseWitness ==
  \E t \in DOMAIN call :
    /\ kind = "pool" /\ trace
    /\ RoundTrip(call[t]) /\ call[t].done /\ call[t].res # NULL
    /\ call[t].upstream_calls = << >>
    /\ call[t].res = call[t].snapshot.stacks[
                        FirstStack(call[t].size, call[t].alignment)].ptr

\* the size the pool is to ask its upstream for, before it is ceiled
RefillSize(size, alignment) ==
  Max(size + Max(0, alignment - get_upstream_alignment),
      PoolCfg.max_chunk_size * PoolCfg.chunk_size_multiplier)

\* no stack held a chunk that could serve the call c when it was made
NoStackServes(c) ==
  LET first == FirstStack(c.size, c.alignment)
  IN  \/ first = 0
      \/ \A id \in first..Len(c.snapshot.stacks) :
            c.snapshot.stacks[id].ptr = NULL

\* C12: when no stack can serve a pool allocate of at most max_chunk_size
\* bytes, the call makes exactly one upstream call, with min_chunk_size as
\* alignment and max(size + max(0, alignment - upstream alignment),
\* max_chunk_size * multiplier) ceiled to the upstream's bounds as size, and
\* if that succeeds it returns a pointer that is a multiple of the requested
\* alignment.
PoolRefillRequest ==
  \A t \in DOMAIN call :
    (/\ kind = "pool" /\ trace /\ call[t].op = "allocate" /\ call[t].done
     /\ ~PoolSizeRejected(call[t].size)
     /\ call[t].size <= PoolCfg.max_chunk_size
     /\ NoStackServes(call[t])) =>
      LET c == call[t] IN
      /\ Len(c.upstream_calls) = 1
      /\ c.upstream_calls[1].alignment = PoolCfg.min_chunk_size
      /\ c.upstream_calls[1].size =
           ceil_allocation_size(ups, RefillSize(c.size, c.alignment))
      /\ Len(blocks) > c.snapshot.blocks =>
           /\ c.res # NULL
           /\ c.res % c.alignment = 0
           /\ blocks[Len(blocks)].size = c.upstream_calls[1].size

\* a pool allocate has asked the upstream for more than the regular block
\* to have room for the padding, and has returned a pointer inside it that
\* is not the start of the block
PoolRefillWitness ==
  \E t \in DOMAIN call :
    /\ kind = "pool" /\ trace /\ call[t].op = "allocate" /\ call[t].done
    /\ call[t].size <= PoolCfg.max_chunk_size
    /\ Len(call[t].upstream_calls) = 1
    /\ call[t].upstream_calls[1].size
         > ceil_allocation_size(ups, PoolCfg.max_chunk_size
                                       * PoolCfg.chunk_size_multiplier)
    /\ call[t].res # NULL /\ call[t].res # call[t].source.ptr

\* the positions of a thread inside stack<T>::pop
PopSteps == {"pop_load_ptr", "pop_load_counter", "pop_read_next", "pop_cas"}

\* C13: a pool allocate of more than max_chunk_size bytes (a multiple of
\* min_chunk_size) never pops a chunk off a stack and makes one upstream
\* call, of at least max(size, max_chunk_size * multiplier) bytes, whatever
\* chunks the stacks hold; what it returns lies in the block so obtained.
PoolOversizedBypass ==
  \A t \in DOMAIN call :
    (/\ kind = "pool" /\ trace /\ call[t].op = "allocate"
     /\ ~PoolSizeRejected(call[t].size)
     /\ call[t].size > PoolCfg.max_chunk_size) =>
      LET c == call[t] IN
      /\ pc[t] \notin PopSteps
      /\ \A id \in DOMAIN on_stack :
            (~destroyed /\ c.snapshot.stacks[id].ptr # NULL) =>
              c.snapshot.stacks[id].ptr \in on_stack[id]
      /\ c.done =>
           /\ Len(c.upstream_calls) = 1
           /\ c.upstream_calls[1].size
                >= Max(c.size, PoolCfg.max_chunk_size
                                 * PoolCfg.chunk_size_multiplier)
           /\ c.res # NULL =>
                /\ c.source.ptr = blocks[Len(blocks)].ptr
                /\ c.source.size = blocks[Len(blocks)].size
                /\ Len(blocks) = c.snapshot.blocks + 1

\* a pool whose stacks held chunks has served an allocate of more than
\* max_chunk_size bytes from a fresh upstream block
PoolOversizedWitness ==
  \E t \in DOMAIN call :
    /\ kind = "pool" /\ trace /\ call[t].op = "allocate" /\ call[t].done
    /\ call[t].size > PoolCfg.max_chunk_size
    /\ call[t].res # NULL
    /\ \A id \in DOMAIN call[t].snapshot.stacks :
          call[t].snapshot.stacks[id].ptr # NULL

\* the list older is what is left of the list newer once the chunks pushed
\* since have been taken off its front
IsTailOf(older, newer) ==
  /\ Len(older) <= Len(newer)
  /\ older = SubSeq(newer, Len(newer) - Len(older) + 1, Len(newer))

\* C14: what a cache deallocate has been given sits on the free list from
\* then on: the free list only grows, nothing an allocate returns intersects
\* a chunk that was on the free list when it was called, and no allocation a
\* caller holds intersects a chunk of the free list.
CacheNeverReissues ==
  kind = "cache" =>
    /\ \A a \in AllLive : \A i \in 1..Len(free_chunks) :
          Disjoint(a, free_chunks[i])
    /\ \A t \in DOMAIN call :
          LET c == call[t] IN
          /\ (trace /\ c.op = "deallocate" /\ c.done
                /\ ~CacheDeallocateIgnored(c.ptr, c.size)) =>
                \E i \in 1..Len(free_chunks) :
                   free_chunks[i].ptr = c.ptr /\ free_chunks[i].size = c.size
          /\ (trace /\ c.op # "none") =>
                IsTailOf(c.snapshot.free, free_chunks)
          /\ (trace /\ c.op = "allocate" /\ c.done /\ c.res # NULL) =>
                \A i \in 1..Len(c.snapshot.free) :
                   Disjoint([ptr |-> c.res, size |-> c.size],
                            c.snapshot.free[i])

\* a cache allocate has been served from the head while a chunk given back
\* by the caller, cut from the same upstream block, was on the free list
CacheNeverReissuesWitness ==
  \E t \in DOMAIN call :
    /\ kind = "cache" /\ trace
    /\ call[t].op = "allocate" /\ call[t].done /\ call[t].res # NULL
    /\ call[t].upstream_calls = << >>
    /\ call[t].previous.op = "deallocate"
    /\ \E i \in 1..Len(free_chunks), b \in 1..Len(blocks) :
          /\ Inside(free_chunks[i], blocks[b])
          /\ Inside([ptr |-> call[t].res, size |-> call[t].size], blocks[b])
          /\ free_chunks[i].size = call[t].previous.size

\* C15: as long as the destructor of a cache or of a pool has not run, the
\* upstream has received no deallocate call, whatever allocate and
\* deallocate calls the resource has served; the upstream deallocate calls a
\* resource makes are those of its destructor.
ReleaseOnlyAtTeardown ==
  /\ (kind \in {"cache", "pool"} /\ ~destroyed) => ups_deallocs = << >>
  /\ \A k \in 1..Len(ups_deallocs) :
        \E i \in 1..Len(blocks) : ~Disjoint(ups_deallocs[k], blocks[i])

\* a resource that has served a deallocate call holds memory of an upstream
\* block on its free list or on its stacks and has not been destroyed
ReleaseOnlyAtTeardownWitness ==
  \E t \in DOMAIN call :
    /\ trace /\ ~destroyed
    /\ call[t].op = "deallocate" /\ call[t].done
    /\ call[t].ptr # NULL /\ call[t].size >= ConfiguredUnit
    /\ blocks # << >>
    /\ \/ \E i \in 1..Len(free_chunks) : free_chunks[i].ptr = call[t].ptr
       \/ \E id \in DOMAIN on_stack : call[t].ptr \in on_stack[id]

-----------------------------------------------------------------------------
(* Move construction of the block cache *)

\* no call has been made on the new instance since it was move-constructed
JustMoved == rhs.moved /\ budget[MainThread] = rhs.calls_left

\* the call c is the first one made on the new instance
FirstCallAfterMove(c) ==
  /\ rhs.moved /\ budget[MainThread] = rhs.calls_left - 1
  /\ c.op # "none"

\* C16: after a cache has been move-constructed from another one with no
\* call in flight, the new instance holds the head, the free list and the
\* block size hint the old one had, and the old one has a head of size 0,
\* an empty free list and the hint 0; the destructor of the old instance
\* makes no upstream deallocate call; the first upstream request made
\* through the new instance follows the hint of the old one (after one
\* block of min_block_size it asks for min_block_size * multiplier); and
\* once everything has been given back the destructor of the new instance
\* returns each block obtained through either instance exactly once.
CacheMoveConstruction ==
  (kind = "cache" /\ rhs.moved) =>
    /\ rhs.head_.size = 0 /\ rhs.free_chunks = << >>
    /\ rhs.last_block_size_ = 0
    /\ rhs.destroyed => rhs.released = << >>
    /\ (JustMoved /\ ~destroyed) =>
         /\ head_ = rhs.former.head
         /\ free_chunks = rhs.former.free
         /\ last_block_size_ = rhs.former.hint
    /\ \A t \in DOMAIN call :
         (FirstCallAfterMove(call[t]) /\ call[t].upstream_calls # << >>) =>
           LET first == call[t].upstream_calls[1] IN
           /\ call[t].snapshot.head = rhs.former.head
           /\ first.next_size = get_next_block_size(rhs.former.hint)
           /\ rhs.former.hint = CacheCfg.min_block_size =>
                first.next_size * CacheCfg.block_size_multiplier.den
                  = CacheCfg.min_block_size
                      * CacheCfg.block_size_multiplier.num
    /\ (destroyed /\ AllLive = {}) =>
         /\ \A k \in 1..Len(ups_deallocs) :
               IsRunOfBlocks(BlocksInside(ups_deallocs[k]), ups_deallocs[k])
         /\ \A i \in 1..Len(blocks) :
               Cardinality({ k \in 1..Len(ups_deallocs) :
                               ~Disjoint(blocks[i], ups_deallocs[k]) }) = 1

\* both instances have been destroyed after the old one had obtained a
\* block and the new one a second, bigger one, and all was given back
CacheMoveWitness ==
  /\ kind = "cache" /\ rhs.moved /\ rhs.destroyed /\ destroyed
  /\ AllLive = {}
  /\ rhs.former.blocks = 1 /\ rhs.former.free # << >>
  /\ Len(blocks) = 2
  /\ blocks[2].size > blocks[1].size
  /\ ups_deallocs # << >>

-----------------------------------------------------------------------------
(* Lock-freedom of the stack and of the block cache *)

\* the threads of a run call a stack or a cache
InitLockFree == InitStack \/ InitCache

\* the steps thread t can take
ThreadSteps(t) ==
  StackPush(t) \/ StackPop(t) \/ StackStep(t) \/ CacheStep(t)

NextLockFree == (\E t \in Threads : ThreadSteps(t)) \/ CacheDestroy

\* the thread that keeps taking steps, whatever the other one does
RunningThread == "t2"

\* The running thread takes a step whenever it can; the other thread may
\* take steps, stop in the middle of a call or never run.
SpecLockFree ==
  InitLockFree /\ [][NextLockFree]_vars /\ WF_vars(ThreadSteps(RunningThread))

\* the compare-and-swap thread t is about to make is going to fail
CasWillFail(t) ==
  \/ pc[t] \in {"fast_path", "install"} /\ head_ # loc[t].curr_head
  \/ pc[t] = "push_chunk" /\ FreeChunksHead # loc[t].chunk.next
  \/ /\ pc[t] \in {"push_cas", "pop_cas"}
     /\ chunk_stacks_[loc[t].stack_id] # loc[t].old_head

\* C17: a compare-and-swap of push, pop, allocate or deallocate fails only
\* if another thread's compare-and-swap has written the same word since the
\* thread began to read it, and a thread that keeps taking steps finishes
\* the call it is in, whether the other thread goes on, stops in the middle
\* of a call or never runs.
LockFreedom ==
  /\ [](\A t \in Threads : CasWillFail(t) => interfered[t])
  /\ \A t \in {RunningThread} : (pc[t] # "idle") ~> (pc[t] = "idle")

\* the running thread is about to retry the compare-and-swap of a pop that
\* the other thread, now stopped in the middle of its own call, made fail
LockFreedomWitness ==
  /\ kind = "stack"
  /\ pc[RunningThread] = "pop_cas" /\ CasWillFail(RunningThread)
  /\ interfered[RunningThread]
  /\ \E t \in Threads : t # RunningThread /\ pc[t] # "idle"

-----------------------------------------------------------------------------
(* The requests the block cache makes of its upstream *)

\* C18: every upstream allocate call the cache makes passes the configured
\* granularity as its alignment argument, whatever alignment the caller of
\* the cache has asked for.
CacheUpstreamAlignmentArgument ==
  /\ \A t \in DOMAIN call :
        (kind = "cache" /\ call[t].op = "allocate") =>
          \A i \in 1..Len(call[t].upstream_calls) :
             call[t].upstream_calls[i].alignment = CacheCfg.granularity
  /\ kind = "cache" =>
        \A i \in 1..Len(blocks) : blocks[i].alignment = CacheCfg.granularity

\* value is min_block_size * block_size_multiplier^n for some n >= 0 and not
\* above max_block_size; power is multiplier^n as a fraction, n counting up
RECURSIVE InSeriesFrom(_, _)
InSeriesFrom(value, power) ==
  LET element_num == CacheCfg.min_block_size * power.num IN
  IF element_num > CacheCfg.max_block_size * power.den THEN FALSE
  ELSE IF value * power.den = element_num THEN TRUE
  ELSE InSeriesFrom(value,
                    [num |-> power.num * CacheCfg.block_size_multiplier.num,
                     den |-> power.den * CacheCfg.block_size_multiplier.den])

InSeries(value) == InSeriesFrom(value, [num |-> 1, den |-> 1])

\* the upstream request was made with the size of the growth policy, not
\* with the bigger size of the call
PolicySized(request) ==
  request.size = ceil_allocation_size(ups, request.next_size)

\* C19: every block size the growth policy of the cache chooses for an
\* upstream request, before it is ceiled to the upstream's bounds and leaving
\* aside requests bigger than the policy size, is min_block_size *
\* block_size_multiplier^n for an integer n >= 0 and is not above
\* max_block_size, when growing after a success and when stepping down after
\* a failure.
CacheGeometricSizes ==
  \A t \in DOMAIN call :
    (kind = "cache" /\ call[t].op = "allocate") =>
      \A i \in 1..Len(call[t].upstream_calls) :
         PolicySized(call[t].upstream_calls[i]) =>
           InSeries(call[t].upstream_calls[i].next_size)

-----------------------------------------------------------------------------
(* The chunk sizes of a pool configuration *)

\* the largest chunk_size_multiplier of the configurations examined
MaxMultiplier == 4

\* the largest quotient max_chunk_size / min_chunk_size examined
MaxChunkFactor == 27

\* the min_chunk_size values examined: one below alignof(std::max_align_t),
\* the smallest legal ones and those of the tests (2 KiB, 8 KiB)
MinChunkSizes == {8, 16, 32, 2048, 8192}

\* pool_resource_config values: any multiplier from 0, and for
\* max_chunk_size the multiples of min_chunk_size and values in between
PoolConfigs ==
  { [min_chunk_size |-> min, max_chunk_size |-> min * factor + extra,
     chunk_size_multiplier |-> multiplier] :
      min \in MinChunkSizes, factor \in 0..MaxChunkFactor, extra \in {0, 8},
      multiplier \in 0..MaxMultiplier }

\* an instantiation of pool_resource with one of the configurations, before
\* its chunk_sizes member is evaluated
InitSizes ==
  /\ kind = "chunk_sizes"
  /\ workload = {}
  /\ trace = FALSE
  /\ ups \in PoolThreadUpstreams
  /\ rhs = NoRhs
  /\ brk = ArenaBase /\ blocks = << >> /\ ups_deallocs = << >>
  /\ head_ = NoHead /\ free_chunks = << >> /\ last_block_size_ = 0
  /\ chunk_stacks_ = << >>
  /\ mem_next = << >>
  /\ on_stack = << >>
  /\ destroyed = FALSE
  /\ pc = [t \in {MainThread} |-> "configured"]
  /\ \E cfg \in PoolConfigs :
       loc = [t \in {MainThread} |-> [cfg |-> cfg, chunk_sizes |-> << >>]]
  /\ call = [t \in {MainThread} |-> NoCall]
  /\ live = [t \in {MainThread} |-> {}]
  /\ returned = {}
  /\ budget = [t \in {MainThread} |-> 0]
  /\ interfered = [t \in {MainThread} |-> FALSE]

\* static_assert(_cfg.chunk_size_multiplier > 0) of get_chunk_sizes()
MultiplierAsserted(cfg) == cfg.chunk_size_multiplier > 0

\* the static_asserts of pool_resource on its configuration and on
\* impl_t::chunk_sizes
StaticAsserts(cfg, sizes) ==
  /\ cfg.min_chunk_size >= MaxAlign
  /\ cfg.max_chunk_size % cfg.min_chunk_size = 0
  /\ sizes[Len(sizes)] = cfg.max_chunk_size

\* constexpr static auto chunk_sizes = get_chunk_sizes()
EvaluateChunkSizes ==
  /\ kind = "chunk_sizes"
  /\ pc[MainThread] = "configured"
  /\ MultiplierAsserted(loc[MainThread].cfg)
  /\ loc' = [loc EXCEPT ![MainThread].chunk_sizes =
                          get_chunk_sizes(loc[MainThread].cfg)]
  /\ pc' = [pc EXCEPT ![MainThread] = "evaluated"]
  /\ UNCHANGED << setup_vars, upstream_vars, cache_vars, pool_vars,
                  destroyed, call, live, returned, budget >>

\* the program compiles: every static_assert holds
Compiles ==
  /\ kind = "chunk_sizes"
  /\ pc[MainThread] = "evaluated"
  /\ StaticAsserts(loc[MainThread].cfg, loc[MainThread].chunk_sizes)
  /\ pc' = [pc EXCEPT ![MainThread] = "accepted"]
  /\ UNCHANGED << setup_vars, upstream_vars, cache_vars, pool_vars,
                  destroyed, loc, call, live, returned, budget >>

\* the program is ill-formed: a static_assert fails
FailsToCompile ==
  /\ kind = "chunk_sizes"
  /\ \/ /\ pc[MainThread] = "configured"
        /\ ~MultiplierAsserted(loc[MainThread].cfg)
     \/ /\ pc[MainThread] = "evaluated"
        /\ ~StaticAsserts(loc[MainThread].cfg, loc[MainThread].chunk_sizes)
  /\ pc' = [pc EXCEPT ![MainThread] = "rejected"]
  /\ UNCHANGED << setup_vars, upstream_vars, cache_vars, pool_vars,
                  destroyed, loc, call, live, returned, budget >>

NextSizes == EvaluateChunkSizes \/ Compiles \/ FailsToCompile

SpecSizes == InitSizes /\ [][NextSizes]_vars

\* multiplier to the power n
RECURSIVE Pow(_, _)
Pow(multiplier, n) == IF n = 0 THEN 1 ELSE multiplier * Pow(multiplier, n - 1)

\* the least power n from the given one on with element * multiplier^n =
\* max_chunk_size, or -1 when there is none
RECURSIVE SeriesPowerFrom(_, _, _)
SeriesPowerFrom(cfg, element, n) ==
  IF element = cfg.max_chunk_size THEN n
  ELSE IF element > cfg.max_chunk_size \/ cfg.chunk_size_multiplier < 2
       THEN -1
       ELSE SeriesPowerFrom(cfg, element * cfg.chunk_size_multiplier, n + 1)

\* the least n with max_chunk_size = min_chunk_size * chunk_size_multiplier^n
SeriesPower(cfg) == SeriesPowerFrom(cfg, cfg.min_chunk_size, 0)

\* the configuration is one the documentation of pool_resource_config allows
Documented(cfg) ==
  /\ cfg.chunk_size_multiplier > 0
  /\ cfg.min_chunk_size >= MaxAlign
  /\ SeriesPower(cfg) >= 0

\* min_chunk_size * chunk_size_multiplier^k for k from 0 to the first power
\* that gives max_chunk_size
Series(cfg) ==
  [i \in 1..(SeriesPower(cfg) + 1) |->
     cfg.min_chunk_size * Pow(cfg.chunk_size_multiplier, i - 1)]

\* C20: for a configuration with max_chunk_size = min_chunk_size *
\* chunk_size_multiplier^n, chunk_sizes is exactly the series min_chunk_size *
\* chunk_size_multiplier^k for k = 0..n: it is strictly increasing and its
\* last element is max_chunk_size; with the multiplier 1 and min_chunk_size =
\* max_chunk_size it is the one element min_chunk_size. These and no other
\* configurations pass the static_asserts of pool_resource.
PoolChunkSizes ==
  kind = "chunk_sizes" =>
    LET cfg   == loc[MainThread].cfg
        sizes == loc[MainThread].chunk_sizes
    IN  /\ (pc[MainThread] = "evaluated" /\ Documented(cfg)) =>
             /\ sizes = Series(cfg)
             /\ \A i \in 1..(Len(sizes) - 1) : sizes[i] < sizes[i + 1]
             /\ sizes[Len(sizes)] = cfg.max_chunk_size
             /\ (cfg.chunk_size_multiplier = 1) =>
                  sizes = << cfg.min_chunk_size >>
        /\ pc[MainThread] = "accepted" =>
             Documented(cfg) /\ sizes = Series(cfg)
        /\ pc[MainThread] = "rejected" => ~Documented(cfg)

\* the chunk sizes of the configuration 8 KiB / 216 KiB / x3 have been
\* evaluated and accepted: 8, 24, 72 and 216 KiB
PoolChunkSizesWitness ==
  /\ kind = "chunk_sizes"
  /\ pc[MainThread] = "accepted"
  /\ loc[MainThread].cfg = [min_chunk_size |-> 8192,
                            max_chunk_size |-> 221184,
                            chunk_size_multiplier |-> 3]
  /\ loc[MainThread].chunk_sizes = << 8192, 24576, 73728, 221184 >>

-----------------------------------------------------------------------------
(* chain_resource: a list of member resources tried in turn *)

\* calls the caller of a chain makes
MaxChainOps == 2

\* sizeof...(Rs) of the chains examined
ChainLen == 3

\* resource_params::group of the members (those of the deallocation test)
ChainGroups == { << 1, 3 >>, << 0, 2 >>, << 2, 2 >> }

\* resource_params::nothrow_alloc of the members, in declaration order: as
\* in the allocation test, and every member throwing
ChainNothrow == { << TRUE, FALSE, TRUE >>, << FALSE, FALSE, FALSE >> }

\* the overloads of dispatch_deallocate a chain type may come with: none of
\* its own, one returning an integral_constant, one returning a size_t
ChainDispatchers ==
  { [overload |-> "none", value |-> 0], [overload |-> "runtime", value |-> 0] }
    \cup { [overload |-> "constant", value |-> i] : i \in 0..(ChainLen - 1) }

\* chain_resource<Rs...> with its members' parameters
ChainTypes ==
  { [ members |-> [i \in 1..ChainLen |->
                     [nothrow_alloc |-> nothrow[i], group |-> groups[i]]],
      dispatcher |-> d ] :
      nothrow \in ChainNothrow, groups \in [1..ChainLen -> ChainGroups],
      d \in ChainDispatchers }

\* what the caller asks the chain for
ChainRequests ==
  { [size |-> 16, alignment |-> 16], [size |-> 32, alignment |-> 64] }

\* size_t(-1): result.second before the first member is tried (++ makes it 0)
NoIndex == -1

\* enable_interchangeable_resources of two test_resources (neither has equal
\* instances)
interchangeable_resource_with(r1, r2) == r1.group[1] = r2.group[1]

\* substitutable_resource_for of two test_resources
substitutable_resource_for(r1, r2) ==
  \/ interchangeable_resource_with(r1, r2)
  \/ r1.group[1] < r2.group[1] /\ r1.group[2] <= r2.group[2]

\* universal_deallocator_finder takes the last suitable member
LastUniversalDeallocator(members) ==
  LET suitable == { i \in DOMAIN members :
                      \A j \in DOMAIN members \ {i} :
                         substitutable_resource_for(members[i], members[j]) }
  IN  IF suitable = {} THEN Len(members)
      ELSE (CHOOSE i \in suitable : \A j \in suitable : j <= i) - 1

\* resource_list::universal_deallocator_id: the (zero-based) index of the
\* first member substitutable for all the others, sizeof...(Rs) without one
universal_deallocator_id(members) ==
  LET suitable == { i \in DOMAIN members :
                      \A j \in DOMAIN members \ {i} :
                         substitutable_resource_for(members[i], members[j]) }
  IN  IF suitable = {} THEN Len(members)
      ELSE (CHOOSE i \in suitable : \A j \in suitable : i <= j) - 1

has_universal_deallocator(members) ==
  universal_deallocator_id(members) < Len(members)

\* has_dispatcher<chain_resource>: an overload of its own or the default one
has_dispatcher(chain) ==
  \/ chain.dispatcher.overload # "none"
  \/ has_universal_deallocator(chain.members)

has_constant_dispatcher(chain) ==
  /\ has_dispatcher(chain)
  /\ chain.dispatcher.overload # "runtime"

\* __detail::dispatch<chain_resource> of a chain with a constant dispatcher
dispatch(chain) ==
  IF chain.dispatcher.overload = "constant" THEN chain.dispatcher.value
  ELSE universal_deallocator_id(chain.members)

\* the fold of do_allocate goes on to every member
TriesEveryMember(result) == TRUE

\* the fold over || of do_allocate goes on while the pointer is null
TriesNextMember(result) == result.first = NULL

\* the fold of deallocate_with: the members (zero-based) whose deallocate is
\* called, the members from the one numbered i on still to be visited
RECURSIVE DeallocateWithFold(_, _, _)
DeallocateWithFold(idx, i, n) ==
  IF i >= n THEN << >>
  ELSE IF idx = 0 THEN << i >>
       ELSE DeallocateWithFold(idx - 1, i + 1, n)

\* a chain before any call
InitChain ==
  /\ kind = "chain"
  /\ workload = ChainRequests
  /\ trace = TRUE
  /\ ups \in ChainTypes
  /\ rhs = NoRhs
  /\ brk = ArenaBase /\ blocks = << >> /\ ups_deallocs = << >>
  /\ head_ = NoHead /\ free_chunks = << >> /\ last_block_size_ = 0
  /\ chunk_stacks_ = << >>
  /\ mem_next = << >>
  /\ on_stack = << >>
  /\ destroyed = FALSE
  /\ pc = [t \in {MainThread} |-> "idle"]
  /\ loc = [t \in {MainThread} |-> [first |-> NULL, second |-> NoIndex]]
  /\ call = [t \in {MainThread} |->
               [op |-> "none", size |-> 0, alignment |-> 0, ptr |-> NULL,
                idx |-> NoIndex, res |-> [first |-> NULL, second |-> NoIndex],
                done |-> TRUE, member_calls |-> << >>]]
  /\ live = [t \in {MainThread} |-> {}]
  /\ returned = {}
  /\ budget = [t \in {MainThread} |-> MaxChainOps]
  /\ interfered = [t \in {MainThread} |-> FALSE]

\* do_allocate(size, alignment): result{ nullptr, size_t(-1) }
ChainAllocate(t) ==
  /\ kind = "chain" /\ CanCall(t)
  /\ \E r \in workload :
       call' = [call EXCEPT ![t] =
                  [op |-> "allocate", size |-> r.size,
                   alignment |-> r.alignment, ptr |-> NULL, idx |-> NoIndex,
                   res |-> [first |-> NULL, second |-> NoIndex],
                   done |-> FALSE, member_calls |-> << >>]]
  /\ loc' = [loc EXCEPT ![t] = [first |-> NULL, second |-> NoIndex]]
  /\ pc' = [pc EXCEPT ![t] = "chain_try"]
  /\ budget' = [budget EXCEPT ![t] = @ - 1]
  /\ UNCHANGED << setup_vars, upstream_vars, cache_vars, pool_vars,
                  destroyed, live, returned >>

\* what a member's allocate may do: return memory, return null, or throw
\* unless it is noexcept
MemberOutcomes(member) ==
  {"memory", "null"} \cup (IF member.nothrow_alloc THEN {} ELSE {"throws"})

\* do_allocate: one operand of the fold, (++result.second, result.first =
\* memaw::allocate<exceptions_policy::nothrow>(resources, size, alignment));
\* try_allocate turns an exception into a null pointer
ChainTry(t) ==
  /\ kind = "chain" /\ pc[t] = "chain_try"
  /\ LET second == loc[t].second + 1
         member == ups.members[second + 1]
     IN  \E outcome \in MemberOutcomes(member) :
           LET first  == IF outcome = "memory" THEN brk ELSE NULL
               result == [first |-> first, second |-> second]
               record == [member |-> second, size |-> call[t].size,
                          alignment |-> call[t].alignment,
                          outcome |-> outcome, result |-> first]
               more   == /\ TriesNextMember(result)
                         /\ second + 1 < Len(ups.members)
           IN  /\ brk' = IF outcome = "memory" THEN brk + call[t].size
                         ELSE brk
               /\ blocks' = IF outcome = "memory"
                              THEN Append(blocks,
                                          [ptr |-> first,
                                           size |-> call[t].size,
                                           member |-> second])
                              ELSE blocks
               /\ loc' = [loc EXCEPT ![t] = result]
               /\ call' = [call EXCEPT ![t] =
                             [@ EXCEPT !.member_calls = Append(@, record),
                                       !.res = IF more THEN @ ELSE result,
                                       !.done = ~more]]
               /\ pc' = [pc EXCEPT ![t] = IF more THEN "chain_try"
                                          ELSE "idle"]
               /\ live' = [live EXCEPT ![t] =
                             IF ~more /\ first # NULL
                               THEN @ \cup {[ptr |-> first,
                                             size |-> call[t].size,
                                             alignment |-> call[t].alignment,
                                             member |-> second]}
                               ELSE @]
  /\ UNCHANGED << setup_vars, ups_deallocs, cache_vars, pool_vars,
                  destroyed, returned, budget >>

\* the arguments a caller passes to a deallocation: a pointer the chain has
\* returned or null, with any size and alignment
ChainDeallocateArgs(t) ==
  { [ptr |-> p, size |-> r.size, alignment |-> r.alignment] :
      p \in {NULL} \cup { a.ptr : a \in live[t] }, r \in workload }

\* the deallocate calls the members targets receive with the arguments args
Forwarded(targets, args) ==
  [k \in DOMAIN targets |->
     [member |-> targets[k], ptr |-> args.ptr, size |-> args.size,
      alignment |-> args.alignment]]

\* a finished deallocation of the chain
ChainDeallocated(t, op, args, idx, targets) ==
  /\ ups_deallocs' = ups_deallocs \o Forwarded(targets, args)
  /\ call' = [call EXCEPT ![t] =
                [op |-> op, size |-> args.size, alignment |-> args.alignment,
                 ptr |-> args.ptr, idx |-> idx,
                 res |-> [first |-> NULL, second |-> NoIndex],
                 done |-> TRUE, member_calls |-> Forwarded(targets, args)]]
  /\ live' = [live EXCEPT ![t] = { a \in @ : a.ptr # args.ptr }]
  /\ budget' = [budget EXCEPT ![t] = @ - 1]
  /\ UNCHANGED << setup_vars, brk, blocks, cache_vars, pool_vars,
                  destroyed, pc, loc, returned >>

\* deallocate(ptr, size, alignment) of a chain with a dispatcher: std::get
\* of the constant index, or deallocate_with of the index the overload of
\* dispatch_deallocate returns
ChainDeallocate(t) ==
  /\ kind = "chain" /\ CanCall(t)
  /\ has_dispatcher(ups)
  /\ \E args \in ChainDeallocateArgs(t) :
       IF has_constant_dispatcher(ups)
         THEN ChainDeallocated(t, "deallocate", args, dispatch(ups),
                               << dispatch(ups) >>)
         ELSE \E idx \in 0..Len(ups.members) :
                ChainDeallocated(t, "deallocate", args, idx,
                                 DeallocateWithFold(idx, 0,
                                                    Len(ups.members)))

\* deallocate_with(idx, ptr, size, alignment)
ChainDeallocateWith(t) ==
  /\ kind = "chain" /\ CanCall(t)
  /\ \E args \in ChainDeallocateArgs(t), idx \in 0..Len(ups.members) :
       ChainDeallocated(t, "deallocate_with", args, idx,
                        DeallocateWithFold(idx, 0, Len(ups.members)))

NextChain ==
  \/ ChainAllocate(MainThread)
  \/ ChainTry(MainThread)
  \/ ChainDeallocate(MainThread)
  \/ ChainDeallocateWith(MainThread)

SpecChain == InitChain /\ [][NextChain]_vars

\* C21: do_allocate(size, alignment) calls allocate on the members in
\* declaration order with its own arguments, and goes on exactly as long as
\* the members fail, a member that throws counting as one that fails; it
\* returns the pointer and the index of the first member that returned
\* memory, having called no later member, and a null pointer with the index
\* of the last member when every member has failed.
ChainAllocationOrder ==
  \A t \in DOMAIN call :
    (kind = "chain" /\ call[t].op = "allocate") =>
      LET c == call[t]
          n == Len(c.member_calls)
      IN  /\ \A k \in 1..n :
               /\ c.member_calls[k].member = k - 1
               /\ c.member_calls[k].size = c.size
               /\ c.member_calls[k].alignment = c.alignment
               /\ (c.member_calls[k].outcome = "throws") =>
                    c.member_calls[k].result = NULL
               /\ (k < n) => c.member_calls[k].result = NULL
          /\ n <= Len(ups.members)
          /\ c.done =>
               /\ n >= 1
               /\ c.res.first = c.member_calls[n].result
               /\ c.res.second = n - 1
               /\ (c.res.first = NULL) => n = Len(ups.members)
          /\ (~c.done /\ n >= 1) => c.member_calls[n].result = NULL

\* the first member has returned null and the second has thrown, and the
\* third has served the call: do_allocate has returned its pointer with the
\* index 2
ChainAllocationWitness ==
  /\ kind = "chain"
  /\ call[MainThread].op = "allocate" /\ call[MainThread].done
  /\ Len(call[MainThread].member_calls) = 3
  /\ call[MainThread].member_calls[1].outcome = "null"
  /\ call[MainThread].member_calls[2].outcome = "throws"
  /\ call[MainThread].res.first # NULL
  /\ call[MainThread].res.second = 2

\* C22: a deallocation of the chain forwards its arguments unchanged to
\* exactly one member and calls no other member: deallocate of a chain
\* without an overload of dispatch_deallocate to the first member that is
\* substitutable for all the others, deallocate of a chain with an overload
\* to the member whose index the overload returns, and deallocate_with(idx)
\* to the member at index idx.
ChainDeallocationRouting ==
  \A t \in DOMAIN call :
    (kind = "chain" /\ call[t].op \in {"deallocate", "deallocate_with"}
       /\ call[t].idx < Len(ups.members)) =>
      LET c == call[t]
      IN  /\ c.member_calls = << [member |-> c.idx, ptr |-> c.ptr,
                                  size |-> c.size,
                                  alignment |-> c.alignment] >>
          /\ ups_deallocs # << >>
          /\ ups_deallocs[Len(ups_deallocs)] = c.member_calls[1]
          /\ (c.op = "deallocate" /\ ups.dispatcher.overload = "none") =>
               LET r == ups.members[c.idx + 1]
               IN  /\ \A j \in DOMAIN ups.members \ {c.idx + 1} :
                        substitutable_resource_for(r, ups.members[j])
                   /\ \A i \in 1..c.idx :
                        \E j \in DOMAIN ups.members \ {i} :
                           ~substitutable_resource_for(ups.members[i],
                                                       ups.members[j])
          /\ (c.op = "deallocate" /\ ups.dispatcher.overload = "constant") =>
               c.idx = ups.dispatcher.value

\* the chain of the deallocation test without an overload of
\* dispatch_deallocate has deallocated a pointer it had returned: its second
\* member, the first one substitutable for the others, has received the call
ChainDeallocationWitness ==
  /\ kind = "chain"
  /\ ups.dispatcher.overload = "none"
  /\ [i \in 1..ChainLen |-> ups.members[i].group]
       = << << 1, 3 >>, << 0, 2 >>, << 2, 2 >> >>
  /\ call[MainThread].op = "deallocate"
  /\ call[MainThread].ptr # NULL
  /\ call[MainThread].idx = 1
  /\ Len(ups_deallocs) = 1

-----------------------------------------------------------------------------
(* chain_resource: the static information of a chain *)

\* min_size of the members of a chain (0: not bound), those of the tests
\* among them
MemberMinSizes == {0, 3, 5, 7, 8, 100}

\* the number of members of the chains whose min_size() is evaluated
SizedChainLen == 4

\* chains of sized_resource<min_size, alignment, is_granular> members
SizedChains ==
  [1..SizedChainLen -> [min_size : MemberMinSizes, is_granular : BOOLEAN]]

bound_resource(r) == r.min_size > 0

granular_resource(r) == bound_resource(r) /\ r.is_granular

RECURSIVE Gcd(_, _)
Gcd(a, b) == IF b = 0 THEN a ELSE Gcd(b, a % b)

\* nupp::lcm of the values of a set
RECURSIVE Lcm(_)
Lcm(values) ==
  IF values = {} THEN 1
  ELSE LET value == CHOOSE v \in values : TRUE
           rest  == Lcm(values \ {value})
       IN  (value \div Gcd(value, rest)) * rest

\* nupp::maximum of the values of a non-empty set
Maximum(values) == CHOOSE v \in values : \A w \in values : w <= v

\* resource_list::get_min_size()
get_min_size(members) ==
  LET bound == { members[i] : i \in DOMAIN members }
      granular == { r.min_size : r \in { b \in bound : granular_resource(b) } }
      bound_non_granular ==
        { r.min_size :
            r \in { b \in bound : bound_resource(b) /\ ~granular_resource(b) } }
  IN  IF bound_non_granular = {} THEN Lcm(granular)
      ELSE LET non_granular_max == Maximum(bound_non_granular)
           IN  IF granular = {} THEN non_granular_max
               ELSE Lcm({non_granular_max} \cup granular)

\* a chain type before its min_size() is called
InitInfo ==
  /\ kind = "chain_info"
  /\ workload = {}
  /\ trace = FALSE
  /\ ups \in { [members |-> m] : m \in SizedChains }
  /\ rhs = NoRhs
  /\ brk = ArenaBase /\ blocks = << >> /\ ups_deallocs = << >>
  /\ head_ = NoHead /\ free_chunks = << >> /\ last_block_size_ = 0
  /\ chunk_stacks_ = << >>
  /\ mem_next = << >>
  /\ on_stack = << >>
  /\ destroyed = FALSE
  /\ pc = [t \in {MainThread} |-> "idle"]
  /\ loc = [t \in {MainThread} |-> [min_size |-> 0]]
  /\ call = [t \in {MainThread} |-> NoCall]
  /\ live = [t \in {MainThread} |-> {}]
  /\ returned = {}
  /\ budget = [t \in {MainThread} |-> 0]
  /\ interfered = [t \in {MainThread} |-> FALSE]

\* chain_resource::min_size(), defined iff a member is bound
ChainMinSizeCall ==
  /\ kind = "chain_info" /\ pc[MainThread] = "idle"
  /\ \E i \in DOMAIN ups.members : bound_resource(ups.members[i])
  /\ loc' = [loc EXCEPT ![MainThread].min_size = get_min_size(ups.members)]
  /\ pc' = [pc EXCEPT ![MainThread] = "min_size"]
  /\ UNCHANGED << setup_vars, upstream_vars, cache_vars, pool_vars,
                  destroyed, call, live, returned, budget >>

NextInfo == ChainMinSizeCall

SpecInfo == InitInfo /\ [][NextInfo]_vars

\* n is at least the min_size() of every bound member and a multiple of the
\* min_size() of every granular member
SuitsMembers(members, n) ==
  \A i \in DOMAIN members :
    /\ bound_resource(members[i]) => n >= members[i].min_size
    /\ granular_resource(members[i]) => n % members[i].min_size = 0

\* C23: chain_resource::min_size() is the smallest number that is at least
\* the min_size() of every bound member and a multiple of the min_size() of
\* every granular member.
ChainMinSize ==
  (kind = "chain_info" /\ pc[MainThread] = "min_size") =>
    LET n == loc[MainThread].min_size
    IN  /\ SuitsMembers(ups.members, n)
        /\ \A m \in 1..(n - 1) : ~SuitsMembers(ups.members, m)

-----------------------------------------------------------------------------
(* os_resource and pages_resource with regular pages on a Unix-like system *)

\* calls the caller of the OS resource makes
MaxOsOps == 4

\* os_info.page_size
OsPageSize == 4096

\* what the caller asks the OS resource for: one and two pages, less than a
\* page, and a page aligned above the page size
OsRequests ==
  { [size |-> OsPageSize, alignment |-> MaxAlign],
    [size |-> 2 * OsPageSize, alignment |-> MaxAlign],
    [size |-> OsPageSize \div 2, alignment |-> MaxAlign],
    [size |-> OsPageSize, alignment |-> 2 * OsPageSize] }

\* the distances mmap may leave between two mappings
OsGaps == {0, OsPageSize}

\* os_mapper::map with regular_pages_tag rejects the request before mmap
MapRejected(size, alignment) ==
  size < OsPageSize \/ alignment > OsPageSize

\* os_mapper::unmap(ptr, size): the regions of the address space mapped
\* after the call
unmap(mappings, ptr, size) == mappings

\* the runs of adjacent regions the caller holds, each with the pointer of
\* its first region and the sum of the sizes
RECURSIVE RunsFrom(_, _)
RunsFrom(regions, run) ==
  {run} \cup UNION { RunsFrom(regions, [ptr |-> run.ptr,
                                        size |-> run.size + r.size]) :
                       r \in { q \in regions : q.ptr = run.ptr + run.size } }

AdjacentRuns(regions) ==
  UNION { RunsFrom(regions, [ptr |-> r.ptr, size |-> r.size]) :
            r \in regions }

\* the OS resource of a process that has mapped nothing yet
InitOs ==
  /\ kind = "os"
  /\ workload = OsRequests
  /\ trace = TRUE
  /\ ups \in { u \in CacheUpstreams : u.min_size = 0 }
  /\ rhs = NoRhs
  /\ brk = ArenaBase /\ blocks = << >> /\ ups_deallocs = << >>
  /\ head_ = NoHead /\ free_chunks = << >> /\ last_block_size_ = 0
  /\ chunk_stacks_ = << >>
  /\ mem_next = << >>
  /\ on_stack = << >>
  /\ destroyed = FALSE
  /\ pc = [t \in {MainThread} |-> "idle"]
  /\ loc = [t \in {MainThread} |-> NoLoc]
  /\ call = [t \in {MainThread} |-> NoCall]
  /\ live = [t \in {MainThread} |-> {}]
  /\ returned = {}
  /\ budget = [t \in {MainThread} |-> MaxOsOps]
  /\ interfered = [t \in {MainThread} |-> FALSE]

\* os_resource::allocate(size, alignment, page_types::regular): os_mapper::map
\* sanitizes the parameters and calls mmap, which maps a new region or fails
OsAllocate(t) ==
  /\ kind = "os" /\ CanCall(t)
  /\ \E r \in workload, mapped \in BOOLEAN, gap \in OsGaps :
       LET ok  == mapped /\ ~MapRejected(r.size, r.alignment)
           ptr == IF ok THEN brk + gap ELSE NULL
       IN  /\ (MapRejected(r.size, r.alignment) \/ ~mapped) => gap = 0
           /\ brk' = IF ok THEN ptr + r.size ELSE brk
           /\ blocks' = IF ok THEN Append(blocks, [ptr |-> ptr,
                                                   size |-> r.size])
                        ELSE blocks
           /\ live' = [live EXCEPT ![t] =
                         IF ok THEN @ \cup {[ptr |-> ptr, size |-> r.size]}
                         ELSE @]
           /\ call' = [call EXCEPT ![t] =
                         [NoCall EXCEPT !.op = "allocate", !.size = r.size,
                                        !.alignment = r.alignment,
                                        !.ptr = ptr, !.res = ptr]]
  /\ budget' = [budget EXCEPT ![t] = @ - 1]
  /\ UNCHANGED << setup_vars, ups_deallocs, cache_vars, pool_vars,
                  destroyed, pc, loc, returned >>

\* os_resource::deallocate(ptr, size) of a region, or of several adjacent
\* regions, returned by allocate: os_mapper::unmap(ptr, size)
OsDeallocate(t) ==
  /\ kind = "os" /\ CanCall(t)
  /\ \E run \in AdjacentRuns(live[t]) :
       /\ blocks' = unmap(blocks, run.ptr, run.size)
       /\ ups_deallocs' = Append(ups_deallocs, run)
       /\ live' = [live EXCEPT ![t] =
                     { r \in @ : ~(run.ptr <= r.ptr
                                   /\ r.ptr + r.size <= run.ptr + run.size) }]
       /\ call' = [call EXCEPT ![t] =
                     [NoCall EXCEPT !.op = "deallocate", !.size = run.size,
                                    !.ptr = run.ptr]]
  /\ budget' = [budget EXCEPT ![t] = @ - 1]
  /\ UNCHANGED << setup_vars, brk, cache_vars, pool_vars,
                  destroyed, pc, loc, returned >>

NextOs == OsAllocate(MainThread) \/ OsDeallocate(MainThread)

SpecOs == InitOs /\ [][NextOs]_vars

\* C24: after deallocate(ptr, size) on a region, or on several adjacent
\* regions, that allocate has returned, no part of [ptr, ptr + size) is
\* mapped by the resource any more.
OsRelease ==
  \A k \in 1..Len(ups_deallocs) :
    kind = "os" =>
      \A i \in 1..Len(blocks) :
         \/ blocks[i].ptr + blocks[i].size <= ups_deallocs[k].ptr
         \/ ups_deallocs[k].ptr + ups_deallocs[k].size <= blocks[i].ptr

-----------------------------------------------------------------------------
(* The fast path of the block cache and an unaligned head *)

\* the head the finished allocate c started from was not aligned as the
\* call asked, but had room for the request behind the padding that aligns it
PaddedHeadFits(c) ==
  LET aligned == align_pointer(c.snapshot.head.ptr, c.alignment)
  IN  /\ c.op = "allocate" /\ c.done
      /\ ~CacheSizeRejected(c.size)
      /\ c.snapshot.head.size > 0
      /\ aligned.padding > 0
      /\ c.snapshot.head.size >= aligned.padding + c.size

\* C25: an allocate that finds the head not aligned as asked, but with at
\* least `size` bytes behind the aligned pointer, is served from the head: it
\* makes no upstream call and returns the aligned pointer, and the padding
\* before it is on the free list.
CacheFastPathPadding ==
  \A t \in DOMAIN call :
    (kind = "cache" /\ trace /\ PaddedHeadFits(call[t])) =>
      LET c == call[t]
          aligned == align_pointer(c.snapshot.head.ptr, c.alignment)
      IN  /\ c.upstream_calls = << >>
          /\ c.res = aligned.result
          /\ \E i \in 1..Len(free_chunks) :
               /\ free_chunks[i].ptr = c.snapshot.head.ptr
               /\ free_chunks[i].size = aligned.padding

-----------------------------------------------------------------------------
(* stack<T, _ts> used by one thread: reset, move construction and the two
   thread safety policies *)

\* calls the thread makes on its stacks
MaxSeqStackOps == 5

\* faulty variant: the exchange of reset leaves the head as it was
ExchangeKeeps(id, value) == chunk_stacks_[id]

\* mem_ref<head_t>::exchange(value) on the head of stack id: the head after it
Exchanged(id, value) == value

\* stack(stack&& rhs): head_{ .ptr = rhs.reset(), .aba_counter = 0 }
MovedHead(ptr) == [ptr |-> ptr, aba_counter |-> 0]

\* the nodes of a list as their holder has them
HeldNodes(list) ==
  { [ptr |-> list[k], size |-> 0, alignment |-> 0, clash |-> FALSE] :
      k \in DOMAIN list }

\* reset(): old_head = make_mem_ref(head_).exchange({}, acquire); the caller
\* holds the list that starts at old_head.ptr from then on
StackReset(t) ==
  /\ kind \in StackKinds /\ CanCall(t)
  /\ \E id \in DOMAIN chunk_stacks_ :
       /\ chunk_stacks_' = [chunk_stacks_ EXCEPT ![id] =
                              Exchanged(id, EmptyStack)]
       /\ on_stack' = [on_stack EXCEPT ![id] = {}]
       /\ live' = [live EXCEPT ![t] = @ \cup HeldNodes(ListOf(id))]
       /\ ImmediateCall(t, "reset", 0, 0, 0, chunk_stacks_[id].ptr)
  /\ UNCHANGED << setup_vars, upstream_vars, cache_vars, mem_next, destroyed,
                  pc, loc, returned >>

\* stack(stack&& rhs): a second stack is constructed from the first one
StackMove ==
  /\ kind \in StackKinds /\ ~destroyed
  /\ Len(chunk_stacks_) = 1
  /\ \A t \in DOMAIN pc : pc[t] = "idle"
  /\ chunk_stacks_' = << Exchanged(1, EmptyStack),
                         MovedHead(chunk_stacks_[1].ptr) >>
  /\ on_stack' = << {}, on_stack[1] >>
  /\ UNCHANGED << setup_vars, upstream_vars, cache_vars, mem_next, destroyed,
                  pc, loc, call, live, returned, budget >>

\* faulty variant: the compare_exchange_weak of either policy may fail
\* spuriously
AnyFailsSpuriously(k) == TRUE

\* compare_exchange_weak of mem_ref<T, thread_safe> is that of
\* std::atomic_ref and may fail spuriously; that of mem_ref<T, thread_unsafe>
\* is its compare_exchange_strong, a comparison and an assignment
MayFailSpuriously(k) == k = "stack"

\* a compare_exchange_weak of thread t fails although the head has the
\* expected value: the loop of push or pop is run again (where several
\* threads run, the state this leaves is one a later load leads to as well)
SpuriousFailure(t) ==
  /\ MayFailSpuriously(kind)
  /\ pc[t] \in {"push_cas", "pop_cas"}
  /\ StackCasSucceeds(loc[t].stack_id, loc[t].old_head)
  /\ loc' = [loc EXCEPT ![t].old_head =
               ExpectedReloaded(loc[t].stack_id, loc[t].old_head)]
  /\ pc' = [pc EXCEPT ![t] = IF pc[t] = "push_cas" THEN "push_store_next"
                             ELSE "pop_read_next"]
  /\ Reads(t)
  /\ UNCHANGED << config_vars, upstream_vars, cache_vars, pool_vars,
                  destroyed, call, live, returned, budget >>

\* a stack of either policy and the nodes its only thread starts with
InitStackSeq ==
  /\ kind \in StackKinds
  /\ workload = {}
  /\ trace = TRUE
  /\ ups \in CacheThreadUpstreams
  /\ rhs = NoRhs
  /\ brk = ArenaBase /\ blocks = << >> /\ ups_deallocs = << >>
  /\ head_ = NoHead /\ free_chunks = << >> /\ last_block_size_ = 0
  /\ chunk_stacks_ = << EmptyStack >>
  /\ mem_next = << >>
  /\ on_stack = << {} >>
  /\ destroyed = FALSE
  /\ pc = [t \in {MainThread} |-> "idle"]
  /\ loc = [t \in {MainThread} |-> NoLoc]
  /\ call = [t \in {MainThread} |-> NoCall]
  /\ live = [t \in {MainThread} |-> HeldNodes([k \in 1..Cardinality(Nodes) |->
                 CHOOSE n \in Nodes :
                   Cardinality({ m \in Nodes : m < n }) = k - 1])]
  /\ returned = {}
  /\ budget = [t \in {MainThread} |-> MaxSeqStackOps]
  /\ interfered = [t \in {MainThread} |-> FALSE]

NextStackSeq ==
  \/ StackPush(MainThread)
  \/ StackPop(MainThread)
  \/ StackStep(MainThread)
  \/ StackReset(MainThread)
  \/ StackMove
  \/ SpuriousFailure(MainThread)

SpecStackSeq == InitStackSeq /\ [][NextStackSeq]_vars

\* the list of stack id holds each node once and ends in a null pointer
ProperList(id) ==
  LET list == ListOf(id)
  IN  /\ Cardinality({ list[k] : k \in DOMAIN list }) = Len(list)
      /\ list # << >> =>
           /\ list[Len(list)] \in DOMAIN mem_next
           /\ mem_next[list[Len(list)]] = NULL

\* what a step of thread t does to the lists of the stacks: a push that
\* returns puts its node in front of the list of its stack, a pop that
\* returns takes the first node of the list of its stack off and returns
\* it, or returns null and leaves the empty list, and no other step of a push
\* or a pop changes a list
ListEffects(t) ==
  \A id \in DOMAIN chunk_stacks_ :
    LET mine == loc[t].stack_id = id IN
    CASE mine /\ pc[t] = "push_cas" /\ pc'[t] = "idle" ->
           ListOf(id)' = << loc[t].chunk.ptr >> \o ListOf(id)
      [] mine /\ pc[t] = "pop_cas" /\ pc'[t] = "idle" ->
           /\ ListOf(id) # << >>
           /\ call'[t].res = Head(ListOf(id))
           /\ ListOf(id)' = Tail(ListOf(id))
      [] mine /\ pc[t] = "pop_read_next" /\ pc'[t] = "idle" ->
           /\ call'[t].res = NULL
           /\ ListOf(id) = << >> /\ ListOf(id)' = << >>
      [] OTHER ->
           (pc[t] # "idle") => ListOf(id)' = ListOf(id)

\* what a reset or a move construction does: the stack reset has given its
\* head away and is empty, and a stack move-constructed has taken over the
\* list of its source
ResetEffects(t) ==
  /\ (call'[t] # call[t] /\ call'[t].op = "reset") =>
       \E id \in DOMAIN chunk_stacks_ :
          /\ call'[t].res = chunk_stacks_[id].ptr
          /\ Walk(call'[t].res, Cardinality(DOMAIN mem_next) + 1)
               = ListOf(id)
          /\ ListOf(id)' = << >>
          /\ chunk_stacks_'[id].ptr = NULL
          /\ \A other \in DOMAIN chunk_stacks_ \ {id} :
               ListOf(other)' = ListOf(other)
  /\ (Len(chunk_stacks_') # Len(chunk_stacks_)) =>
       /\ ListOf(2)' = ListOf(1)
       /\ ListOf(1)' = << >>
       /\ chunk_stacks_'[1].ptr = NULL

\* C26: with one thread, the list of a stack holds exactly the nodes pushed
\* and not popped since, the most recently pushed first, and ends in null;
\* reset() returns the head of that list and leaves the stack empty, so that
\* the next pop returns null; the move constructor gives the new stack the
\* list of the source and leaves the source empty.
StackResetList ==
  /\ [](\A id \in DOMAIN chunk_stacks_ :
          (kind \in StackKinds /\ pc[MainThread] = "idle") =>
            /\ ProperList(id)
            /\ { ListOf(id)[k] : k \in DOMAIN ListOf(id) } = on_stack[id])
  /\ [](LET c == call[MainThread]
        IN  (kind \in StackKinds /\ c.op = "pop" /\ c.done
               /\ c.previous.op = "reset" /\ Len(chunk_stacks_) = 1) =>
              c.res = NULL)
  /\ [][ListEffects(MainThread) /\ ResetEffects(MainThread)]_vars

\* a stack that held two nodes has been reset and a pop has found it empty
StackResetWitness ==
  /\ kind \in StackKinds
  /\ call[MainThread].op = "pop" /\ call[MainThread].done
  /\ call[MainThread].previous.op = "reset"
  /\ call[MainThread].res = NULL
  /\ Cardinality({ a \in live[MainThread] : a.ptr \in DOMAIN mem_next }) >= 2

\* the list of a stack after a call of one thread on it
SeqList(op, list, ptr) ==
  CASE op = "push" -> << ptr >> \o list
    [] op = "pop" -> IF list = << >> THEN << >> ELSE Tail(list)
    [] OTHER -> << >>

\* what pop and reset return to one thread: the first node of the list
SeqResult(list) == IF list = << >> THEN NULL ELSE Head(list)

\* a step of thread t in which a call returns gives the result and leaves
\* the list that the list before it determines, whatever the policy, and a
\* step in which no call returns leaves the lists alone
SequentialOutcome(t) ==
  IF call'[t] # call[t] /\ call'[t].done
    THEN \E id \in DOMAIN chunk_stacks_ :
           /\ call'[t].op # "reset" => id = loc[t].stack_id
           /\ ListOf(id)' = SeqList(call'[t].op, ListOf(id), call'[t].ptr)
           /\ call'[t].op # "push" => call'[t].res = SeqResult(ListOf(id))
           /\ \A other \in DOMAIN chunk_stacks_ \ {id} :
                ListOf(other)' = ListOf(other)
    ELSE Len(chunk_stacks_') = Len(chunk_stacks_) =>
           \A id \in DOMAIN chunk_stacks_ : ListOf(id)' = ListOf(id)

\* the compare-and-swap thread t is about to make ends its loop
FirstAttempt(t) ==
  pc[t] \in {"push_cas", "pop_cas"} =>
    /\ StackCasSucceeds(loc[t].stack_id, loc[t].old_head)
    /\ pc'[t] = "idle"

\* C27: in a stack<T, thread_unsafe> every compare-and-swap of push and pop
\* succeeds at the first attempt, so the body of the loop runs once in each
\* call; and for a sequence of push, pop and reset calls of one thread the
\* results and the lists are those of the sequential stack, the same with
\* either policy.
UnsafeStackEquivalent ==
  /\ [][(kind = "unsafe_stack") => FirstAttempt(MainThread)]_vars
  /\ [][(kind \in StackKinds) => SequentialOutcome(MainThread)]_vars

\* a stack<T, thread_unsafe> with a node on it has returned another from pop
UnsafeStackWitness ==
  /\ kind = "unsafe_stack"
  /\ call[MainThread].op = "pop" /\ call[MainThread].done
  /\ call[MainThread].res # NULL
  /\ call[MainThread].previous.op = "push"
  /\ \E id \in DOMAIN chunk_stacks_ : ListOf(id) # << >>

-----------------------------------------------------------------------------
(* The head the block cache is left with after a refill *)

\* the call c of the cache has taken a block from the upstream and returned
\* its start
Refilled(c) ==
  /\ c.op = "allocate" /\ c.done /\ c.res # NULL
  /\ Len(blocks) = c.snapshot.blocks + 1
  /\ c.res = blocks[Len(blocks)].ptr

\* what is left of the block a refilled call took once its request is served
CarvedBlock(c) ==
  [ptr |-> c.res + c.size, size |-> blocks[Len(blocks)].size - c.size]

\* the chunks that a call has put in front of the list of free chunks
PushedByCall(c) ==
  SubSeq(free_chunks, 1, Len(free_chunks) - Len(c.snapshot.free))

\* C28: the head a cache has when a call of its one thread that took a block
\* from the upstream returns is, of the head the call found and what is
\* left of the block, the one with the larger size, the head the call found
\* if the sizes are equal; the other of the two, if it has a size, is the
\* one chunk the call has pushed to the list of free chunks; so the size of
\* the head is not less than it was when the call started.
CacheHeadSelection ==
  LET c == call[MainThread]
      old == c.snapshot.head
      new == CarvedBlock(c)
      loser == IF head_ = old THEN new ELSE old
  IN  (kind = "cache" /\ trace /\ Refilled(c)) =>
        /\ head_.size = Max(old.size, new.size)
        /\ head_ = (IF old.size >= new.size THEN old ELSE new)
        /\ head_.size >= old.size
        /\ SubSeq(free_chunks, Len(PushedByCall(c)) + 1, Len(free_chunks))
             = c.snapshot.free
        /\ PushedByCall(c) =
             (IF loser.size = 0 THEN << >>
              ELSE << [ptr |-> loser.ptr, size |-> loser.size,
                       alignment |-> DefaultPow2] >>)

\* a refill has replaced a head that had bytes left, which are now a free
\* chunk
CacheHeadSelectionWitness ==
  LET c == call[MainThread]
  IN  /\ kind = "cache" /\ trace /\ Refilled(c)
      /\ c.snapshot.head.size > 0
      /\ head_ = CarvedBlock(c)
      /\ free_chunks # << >>
      /\ free_chunks[1].ptr = c.snapshot.head.ptr

\* a refill has kept a head as large as what is left of the new block
CacheHeadTieWitness ==
  LET c == call[MainThread]
  IN  /\ kind = "cache" /\ trace /\ Refilled(c)
      /\ c.snapshot.head.size = CarvedBlock(c).size
      /\ c.snapshot.head.size > 0
      /\ head_ = c.snapshot.head

-----------------------------------------------------------------------------
(* The block cache growing: one thread, requests of no more than
   min_block_size *)

\* requests the mock of the upstream serves while the cache grows
MaxGrowthBlocks == 4

\* calls the thread makes while the cache grows
MaxGrowthOps == 9

\* get_rand_alloc of the tests, held to sizes up to min_block_size and
\* alignments up to the granularity
GrowthRequests ==
  { [size |-> 32, alignment |-> 16], [size |-> 64, alignment |-> 32] }

\* the upstream serves the request: mock_upstream_alloc has queued a block
\* for it
GrowthUpstreamCall(t) ==
  /\ CacheUpstreamCallOf(t, MaxGrowthBlocks)
  /\ pc'[t] = "upstream_ok"

InitGrowth ==
  CacheInit({MainThread}, CacheUpstreams, GrowthRequests, MaxGrowthOps)

NextGrowth ==
  \/ CacheAllocate(MainThread)
  \/ CacheLoadHeadPtr(MainThread)
  \/ CacheLoadHeadSize(MainThread)
  \/ CacheFastPath(MainThread)
  \/ CacheNextBlockSize(MainThread)
  \/ GrowthUpstreamCall(MainThread)
  \/ CacheUpstreamOk(MainThread)
  \/ CacheInstall(MainThread)
  \/ CacheChunkInit(MainThread)
  \/ CachePushChunk(MainThread)

SpecGrowth == InitGrowth /\ [][NextGrowth]_vars

\* get_block_size of the tests before the cap: b_0 = min_block_size,
\* b_(i+1) = floor(b_i * block_size_multiplier)
RECURSIVE GrowthSeries(_)
GrowthSeries(k) ==
  IF k = 0 THEN CacheCfg.min_block_size
  ELSE (GrowthSeries(k - 1) * CacheCfg.block_size_multiplier.num)
         \div CacheCfg.block_size_multiplier.den

\* get_block_size(num) of the tests: the size of the block the upstream is
\* asked for at its request number num, counted from 0
get_block_size(num) ==
  ceil_allocation_size(ups, Min(GrowthSeries(num), CacheCfg.max_block_size))

\* C29: in a run of one thread in which the upstream serves every request
\* and the cache is asked for no more than min_block_size bytes aligned by
\* no more than the granularity, request number k to the upstream (from 0)
\* is for ceil_allocation_size(min(b_k, max_block_size)) bytes, with
\* b_0 = min_block_size and b_(i+1) = floor(b_i * multiplier); and an
\* allocation the head can serve is given the address at which the
\* allocation before it ends.
CacheGrowthSequence ==
  /\ [](\A k \in DOMAIN blocks : blocks[k].size = get_block_size(k - 1))
  /\ [](LET c == call[MainThread]
        IN  \A k \in DOMAIN c.upstream_calls :
               c.upstream_calls[k].size
                 = get_block_size(c.snapshot.blocks + k - 1))
  /\ [](LET c == call[MainThread]
        IN  (/\ pc[MainThread] = "idle" /\ c.op = "allocate"
             /\ c.res # NULL /\ head_.size > 0) =>
              head_.ptr = c.res + c.size)
  /\ [][(pc[MainThread] = "fast_path" /\ pc'[MainThread] = "idle") =>
          /\ call'[MainThread].res = head_.ptr
          /\ head_.size >= call[MainThread].size
          /\ head_' = [ptr |-> head_.ptr + call[MainThread].size,
                       size |-> head_.size - call[MainThread].size]]_vars

\* the cache has taken a fourth block, of max_block_size as the third, and
\* has served the call after from the same block
CacheGrowthWitness ==
  LET c == call[MainThread]
  IN  /\ kind = "cache" /\ workload = GrowthRequests
      /\ Len(blocks) = 4
      /\ blocks[3].size = blocks[4].size
      /\ blocks[3].size >= CacheCfg.max_block_size
      /\ c.op = "allocate" /\ c.done /\ c.res # NULL
      /\ c.upstream_calls = << >>
      /\ c.res > blocks[4].ptr

-----------------------------------------------------------------------------
(* The block cache stepping down: one thread, requests of no more than
   min_block_size, an upstream that may fail *)

\* requests the mock of the upstream serves at most before it fails
MaxStepDownBlocks == 3

\* calls the thread makes on a cache whose upstream may fail
MaxStepDownOps == 8

InitStepDown ==
  CacheInit({MainThread}, CacheUpstreams, GrowthRequests, MaxStepDownOps)

NextStepDown ==
  \/ CacheAllocate(MainThread)
  \/ CacheLoadHeadPtr(MainThread)
  \/ CacheLoadHeadSize(MainThread)
  \/ CacheFastPath(MainThread)
  \/ CacheNextBlockSize(MainThread)
  \/ CacheUpstreamCallOf(MainThread, MaxStepDownBlocks)
  \/ CacheUpstreamOk(MainThread)
  \/ CacheUpstreamFailed(MainThread)
  \/ CacheInstall(MainThread)
  \/ CacheChunkInit(MainThread)
  \/ CachePushChunk(MainThread)

SpecStepDown == InitStepDown /\ [][NextStepDown]_vars

\* the sizes of the growth series below size
SeriesBelow(size) ==
  { k \in 0..MaxGrowthBlocks : GrowthSeries(k) < size }

\* every request the call c made to the upstream failed
EveryUpstreamCallFailed(c) ==
  /\ c.op = "allocate" /\ c.done
  /\ c.upstream_calls # << >>
  /\ Len(blocks) = c.snapshot.blocks

\* C30: an allocate of no more than min_block_size bytes, aligned by no
\* more than the granularity, that the head cannot serve and whose every
\* request to the upstream fails, asks the upstream once for the next block
\* size, once for each size a step down leads to and at last once for
\* min_block_size, which is one request more than there are sizes of the
\* growth series below the next block size (below max_block_size if that
\* is the size the hint has reached); it returns null and resets the hint,
\* so that the first request of the next refill is for min_block_size.
CacheStepDownStartsOver ==
  LET c == call[MainThread]
      reqs == c.upstream_calls
      first == get_next_block_size(c.snapshot.hint)
  IN  /\ (kind = "cache" /\ EveryUpstreamCallFailed(c)) =>
            /\ c.res = NULL
            /\ reqs[1].next_size = first
            /\ \A k \in 1..(Len(reqs) - 1) :
                  /\ reqs[k].next_size # CacheCfg.min_block_size
                  /\ reqs[k + 1].next_size
                       = get_prev_block_size(reqs[k].next_size)
            /\ \A k \in DOMAIN reqs :
                  reqs[k].size = ceil_allocation_size(ups, reqs[k].next_size)
            /\ reqs[Len(reqs)].next_size = CacheCfg.min_block_size
            /\ Len(reqs) = 1 + Cardinality(SeriesBelow(first))
            /\ last_block_size_ = 0
      /\ (kind = "cache" /\ c.op = "allocate" /\ c.after_failure
            /\ reqs # << >>) =>
            /\ c.snapshot.hint = 0
            /\ reqs[1].next_size = CacheCfg.min_block_size
            /\ reqs[1].size
                 = ceil_allocation_size(ups, CacheCfg.min_block_size)

\* a cache whose hint had reached max_block_size has stepped down to
\* min_block_size in three failed requests and has reset the hint
CacheStepDownStartsOverWitness ==
  LET c == call[MainThread]
  IN  /\ kind = "cache" /\ workload = GrowthRequests
      /\ EveryUpstreamCallFailed(c)
      /\ c.snapshot.hint = CacheCfg.max_block_size
      /\ Len(c.upstream_calls) = 3
      /\ c.upstream_calls[3].next_size = CacheCfg.min_block_size
      /\ last_block_size_ = 0

-----------------------------------------------------------------------------
(* The block cache and its hint when a request fails: one thread, requests
   above the next block size and above the granularity in alignment *)

\* calls the thread makes on the cache
MaxHintOps == 4

\* the upstream types of the cache and a granular one whose min_size is
\* above min_block_size, as that of upstream3_t is above the granularity
HintUpstreams ==
  CacheUpstreams
    \cup { [min_size |-> 100, is_granular |-> TRUE, alignment |-> 32] }

\* a request that fills a block, the same aligned above the granularity and
\* a request above max_block_size
HintRequests ==
  { [size |-> 64, alignment |-> 16], [size |-> 64, alignment |-> 64],
    [size |-> 288, alignment |-> 16] }

InitHint ==
  CacheInit({MainThread}, HintUpstreams, HintRequests, MaxHintOps)

NextHint ==
  \/ CacheAllocate(MainThread)
  \/ CacheLoadHeadPtr(MainThread)
  \/ CacheLoadHeadSize(MainThread)
  \/ CacheFastPath(MainThread)
  \/ CacheNextBlockSize(MainThread)
  \/ CacheUpstreamCall(MainThread)
  \/ CacheUpstreamOk(MainThread)
  \/ CacheUpstreamFailed(MainThread)
  \/ CacheInstall(MainThread)
  \/ CacheChunkInit(MainThread)
  \/ CachePushChunk(MainThread)

SpecHint == InitHint /\ [][NextHint]_vars

\* the call c of the cache has returned null
ReturnedNull(c) == c.op = "allocate" /\ c.done /\ c.res = NULL

\* C31 as stated: an allocate that returns null and is aligned above the
\* granularity, or asks for more than the next block size of the policy,
\* leaves the hint as the call found it.
CacheHintKeptAbovePolicySize ==
  LET c == call[MainThread]
  IN  (/\ kind = "cache" /\ ReturnedNull(c)
       /\ \/ c.alignment > CacheCfg.granularity
          \/ c.size > get_next_block_size(c.snapshot.hint)) =>
        last_block_size_ = c.snapshot.hint

\* C31: an allocate that returns null and is aligned above the granularity,
\* or asks for more than the first request to the upstream would be for (the
\* next block size of the policy raised to what the upstream allows), leaves
\* the hint as the call found it.
CacheHintKept ==
  LET c == call[MainThread]
  IN  (/\ kind = "cache" /\ ReturnedNull(c)
       /\ \/ c.alignment > CacheCfg.granularity
          \/ c.size > ceil_allocation_size(ups,
                        get_next_block_size(c.snapshot.hint))) =>
        last_block_size_ = c.snapshot.hint

\* a cache with a hint has failed to serve a request above the size its
\* first request to the upstream would have been for
CacheHintKeptWitness ==
  LET c == call[MainThread]
  IN  /\ kind = "cache" /\ workload = HintRequests /\ ReturnedNull(c)
      /\ c.snapshot.hint > 0
      /\ c.upstream_calls # << >>
      /\ c.alignment <= CacheCfg.granularity
      /\ c.size > ceil_allocation_size(ups,
                    get_next_block_size(c.snapshot.hint))

-----------------------------------------------------------------------------
(* The alignment the destructor of the block cache passes to the upstream *)

\* C32: every region the destructor of the cache gives back to the upstream
\* that starts where a block starts is given back with the alignment the
\* block was asked for with, whatever alignments the callers passed to
\* deallocate and whether the region starts with what was left of the head.
CacheTeardownAlignment ==
  (kind = "cache" /\ destroyed) =>
    \A d \in DOMAIN ups_deallocs : \A b \in DOMAIN blocks :
       ups_deallocs[d].ptr = blocks[b].ptr =>
         ups_deallocs[d].alignment = blocks[b].alignment

-----------------------------------------------------------------------------
(* The pool giving back ranges: one thread that deallocates one allocation
   or several adjacent ones with one call *)

\* calls the thread makes on the pool
MaxTileOps == 5

\* chunks of both sizes, aligned as the chunks are
TileRequests ==
  { [size |-> 16, alignment |-> 16], [size |-> 32, alignment |-> 16],
    [size |-> 32, alignment |-> 32] }

\* the allocations of the set run follow one another without a gap
AdjacentAllocations(run) ==
  /\ run # {}
  /\ \E first \in run :
       \A a \in run \ {first} :
          \E before \in run : RangeEnd(before) = a.ptr

\* the range the allocations of a run cover
RangeOfRun(run) ==
  LET first == CHOOSE a \in run : \A b \in run : a.ptr <= b.ptr
      last == CHOOSE a \in run : \A b \in run : a.ptr >= b.ptr
  IN  [ptr |-> first.ptr, size |-> RangeEnd(last) - first.ptr,
       alignment |-> first.alignment]

\* the caller gives back one of its allocations, or several adjacent ones
\* as one range
PoolDeallocateRange(t) ==
  /\ kind = "pool" /\ CanCall(t)
  /\ \E run \in SUBSET live[t] :
       /\ AdjacentAllocations(run)
       /\ live' = [live EXCEPT ![t] = @ \ run]
       /\ LET a == RangeOfRun(run)
              todo == Carve(a.ptr, a.size)
          IN  /\ ~PoolDeallocateIgnored(a.ptr, a.size)
              /\ StartCall(t, "deallocate", a.size, a.alignment, a.ptr)
              /\ loc' = [loc EXCEPT ![t].todo = Tail(todo),
                                    ![t].stack_id = Head(todo).stack_id,
                                    ![t].chunk = [NoChunk EXCEPT
                                                    !.ptr = Head(todo).ptr]]
              /\ pc' = [pc EXCEPT ![t] = "push_load_ptr"]
  /\ UNCHANGED << setup_vars, upstream_vars, cache_vars, pool_vars, destroyed,
                  returned >>

InitTile == PoolInit({MainThread}, PoolUpstreams, TileRequests, MaxTileOps)

NextTile ==
  \/ PoolAllocate(MainThread)
  \/ PoolUpstream(MainThread)
  \/ PoolBlock(MainThread)
  \/ PoolDeallocateRange(MainThread)
  \/ StackStep(MainThread)

SpecTile == InitTile /\ [][NextTile]_vars

\* the bytes of a chunk pushed to a stack
ChunkRange(chunk) ==
  [ptr |-> chunk.ptr, size |-> chunk_sizes[chunk.stack_id]]

RECURSIVE SumOfChunks(_)
SumOfChunks(chunks) ==
  IF chunks = << >> THEN 0
  ELSE chunk_sizes[Head(chunks).stack_id] + SumOfChunks(Tail(chunks))

\* the chunks are those of existing stacks, lie in [ptr, ptr + size) two by
\* two apart and are size bytes together
Tiles(chunks, ptr, size) ==
  /\ \A k \in DOMAIN chunks :
        /\ chunks[k].stack_id \in DOMAIN chunk_sizes
        /\ Inside(ChunkRange(chunks[k]), [ptr |-> ptr, size |-> size])
  /\ \A j, k \in DOMAIN chunks :
        j # k => Disjoint(ChunkRange(chunks[j]), ChunkRange(chunks[k]))
  /\ SumOfChunks(chunks) = size

\* C33: the chunks a deallocate(ptr, size) of the pool pushes, for ptr and
\* size multiples of min_chunk_size (one allocation, several adjacent ones
\* or more than max_chunk_size bytes), belong to existing stacks, lie
\* inside [ptr, ptr + size), no two of them overlap, and with each chunk of
\* stack i taken as chunk_sizes[i] bytes they are size bytes together; once
\* the call has returned each of them is on its stack.
PoolDeallocateTiles ==
  LET c == call[MainThread]
      chunks == Carve(c.ptr, c.size)
  IN  (/\ kind = "pool" /\ trace /\ c.op = "deallocate"
       /\ c.ptr # NULL /\ c.ptr % PoolCfg.min_chunk_size = 0
       /\ c.size > 0 /\ c.size % PoolCfg.min_chunk_size = 0) =>
        /\ Tiles(chunks, c.ptr, c.size)
        /\ (c.done /\ ~destroyed) =>
              \A k \in DOMAIN chunks :
                 chunks[k].ptr \in on_stack[chunks[k].stack_id]

\* adjacent allocations that start off the alignment of the larger chunks
\* have been given back as one range of more than max_chunk_size bytes,
\* which was split in a chunk above and a chunk below the first aligned
\* address
PoolDeallocateTilesWitness ==
  LET c == call[MainThread]
      chunks == Carve(c.ptr, c.size)
  IN  /\ kind = "pool" /\ workload = TileRequests
      /\ c.op = "deallocate" /\ c.done
      /\ c.size > PoolCfg.max_chunk_size
      /\ c.ptr % get_chunk_alignment(Len(chunk_sizes)) # 0
      /\ \E j, k \in DOMAIN chunks :
            /\ chunks[j].ptr = c.ptr /\ chunks[j].stack_id = 1
            /\ chunks[k].ptr > c.ptr
            /\ chunks[k].stack_id = Len(chunk_sizes)

-----------------------------------------------------------------------------
(* The alignment of the chunks on the stacks of the pool *)

\* C34: every chunk on the stack of a size class of the pool starts at a
\* multiple of the alignment of the class, the smaller of the largest power
\* of two that divides the chunk size and max(min_chunk_size, guaranteed
\* alignment of the upstream), whether deallocate carved it from the upper
\* or the lower part of a range or allocate pushed it back as padding or as
\* the rest of a chunk or block.
PoolChunkAlignment ==
  kind = "pool" =>
    \A id \in DOMAIN on_stack : \A ptr \in on_stack[id] :
       ptr % Min(MaxPow2Div(chunk_sizes[id]),
                 Max(PoolCfg.min_chunk_size, guaranteed_alignment(ups))) = 0

\* a pool whose bigger chunks are aligned above min_chunk_size holds, as
\* one of them, the padding an allocate aligned above both has pushed back,
\* and a smaller chunk
PoolChunkAlignmentWitness ==
  LET c == call[MainThread]
  IN  /\ kind = "pool" /\ trace
      /\ get_chunk_alignment(Len(chunk_sizes)) > PoolCfg.min_chunk_size
      /\ c.op = "allocate" /\ c.done /\ c.res # NULL
      /\ c.res > c.source.ptr
      /\ c.source.ptr \in on_stack[Len(chunk_sizes)]
      /\ on_stack[1] # {}

\* ---------------------------------------------------------------------------
\* A pool allocation that the upstream fails
\* ---------------------------------------------------------------------------

\* the upstream has returned null to the pool allocate c, which has ended
FailedByUpstream(c) ==
  /\ c.op = "allocate" /\ c.done
  /\ ~PoolSizeRejected(c.size)
  /\ NoStackServes(c)
  /\ c.upstream_calls # << >>
  /\ Len(blocks) = c.snapshot.blocks

\* C35: when no stack of an adequate or larger class holds a chunk and the
\* upstream returns null, pool allocate returns null after exactly one
\* upstream call and leaves every chunk stack as it was; the request is not
\* made again, at a smaller size or at any other.
PoolFailedAllocation ==
  (kind = "pool" /\ trace /\ ~destroyed) =>
    LET c == call[MainThread] IN
    /\ (/\ pc[MainThread] = "pool_block"
        /\ loc[MainThread].block.ptr = NULL) =>
          /\ Len(c.upstream_calls) = 1
          /\ chunk_stacks_ = c.snapshot.stacks
    /\ FailedByUpstream(c) =>
          /\ c.res = NULL
          /\ Len(c.upstream_calls) = 1
          /\ c.upstream_calls[1].size =
               allocate_at_least(RequestSize(c.size, c.alignment))
          /\ chunk_stacks_ = c.snapshot.stacks
          /\ c.res \notin { a.ptr : a \in live[MainThread] }

\* the upstream has failed a pool allocate made while a stack of too small
\* a class held a chunk, and the chunk is still there
PoolFailedAllocationWitness ==
  /\ kind = "pool" /\ trace /\ ~destroyed
  /\ LET c == call[MainThread] IN
     /\ FailedByUpstream(c)
     /\ c.res = NULL
     /\ FirstStack(c.size, c.alignment) > 1
     /\ \E id \in 1..(FirstStack(c.size, c.alignment) - 1) :
          /\ c.snapshot.stacks[id].ptr # NULL
          /\ chunk_stacks_[id] = c.snapshot.stacks[id]

\* ---------------------------------------------------------------------------
\* The teardown of the cache after deallocations in any order and grouping
\* ---------------------------------------------------------------------------

MaxMergeOps == 5

\* one granule and two granules, so that the allocations of a block touch
MergeRequests ==
  { [size |-> 32, alignment |-> 16], [size |-> 64, alignment |-> 16] }

\* the caller gives back one of its allocations, or several adjacent ones
\* with one call deallocate(ptr1, size1 + size2, alignment1)
CacheDeallocateRange(t) ==
  /\ kind = "cache" /\ CanCall(t)
  /\ \E run \in SUBSET live[t] :
       /\ AdjacentAllocations(run)
       /\ live' = [live EXCEPT ![t] = @ \ run]
       /\ LET a == RangeOfRun(run) IN
          /\ ~CacheDeallocateIgnored(a.ptr, a.size)
          /\ StartCall(t, "deallocate", a.size, a.alignment, a.ptr)
          /\ loc' = [loc EXCEPT ![t].chunk =
                       [ptr |-> a.ptr, next |-> 0, size |-> a.size,
                        alignment |-> a.alignment],
                     ![t].ret_to = "caller"]
          /\ pc' = [pc EXCEPT ![t] = "chunk_init"]
  /\ UNCHANGED << setup_vars, upstream_vars, cache_vars, pool_vars, destroyed,
                  returned >>

InitMerge == CacheInit({MainThread}, CacheUpstreams, MergeRequests, MaxMergeOps)

NextMerge ==
  \/ CacheAllocate(MainThread)
  \/ CacheLoadHeadPtr(MainThread)
  \/ CacheLoadHeadSize(MainThread)
  \/ CacheFastPath(MainThread)
  \/ CacheNextBlockSize(MainThread)
  \/ CacheUpstreamCall(MainThread)
  \/ CacheUpstreamOk(MainThread)
  \/ CacheUpstreamFailed(MainThread)
  \/ CacheInstall(MainThread)
  \/ CacheDeallocateRange(MainThread)
  \/ CacheChunkInit(MainThread)
  \/ CachePushChunk(MainThread)
  \/ CacheDestroy

SpecMerge == InitMerge /\ [][NextMerge]_vars

\* the bytes of a range
BytesOf(range) == range.ptr .. (range.ptr + range.size - 1)

\* the bytes of the ranges of a set
BytesOfAll(ranges) == UNION { BytesOf(r) : r \in ranges }

\* the maximal runs of consecutive bytes of a set, as (pointer, size) pairs
MaximalRuns(bytes) ==
  LET ends == { b \in bytes : b + 1 \notin bytes }
      EndOf(first) ==
        CHOOSE e \in ends : e >= first /\ \A o \in ends : o >= first => e <= o
  IN  { [ptr |-> first, size |-> EndOf(first) - first + 1] :
          first \in { b \in bytes : b - 1 \notin bytes } }

\* the (pointer, size) pairs of a sequence of deallocate calls
PointerSizePairs(calls) ==
  { [ptr |-> calls[i].ptr, size |-> calls[i].size] : i \in DOMAIN calls }

\* the bytes the upstream has handed out and no caller holds
BytesGivenBack ==
  BytesOfAll({ blocks[b] : b \in DOMAIN blocks }) \ BytesOfAll(AllLive)

\* C36: the (pointer, size) pairs of the upstream deallocate calls of the
\* destructor of the cache are the maximal runs of the bytes of the blocks
\* that no caller holds, whatever the order in which the callers gave their
\* allocations back and whether adjacent ones were given back with one call
\* or with several; the calls are made in the order of the addresses and no
\* region ends where another one starts.
CacheTeardownOrderFree ==
  (kind = "cache" /\ destroyed) =>
    /\ PointerSizePairs(ups_deallocs) = MaximalRuns(BytesGivenBack)
    /\ Len(ups_deallocs) = Cardinality(PointerSizePairs(ups_deallocs))
    /\ \A i \in DOMAIN ups_deallocs : \A j \in DOMAIN ups_deallocs :
          i < j => RangeEnd(ups_deallocs[i]) < ups_deallocs[j].ptr

\* the destructor has merged a free list that was in the order of the
\* addresses neither upwards nor downwards and held a chunk given back for
\* two allocations at once, into fewer regions than there were chunks
CacheTeardownOrderFreeWitness ==
  /\ kind = "cache" /\ destroyed
  /\ \E i, j, k \in DOMAIN free_chunks :
       /\ i < j /\ j < k
       /\ free_chunks[j].ptr < free_chunks[i].ptr
       /\ free_chunks[j].ptr < free_chunks[k].ptr
  /\ \E i \in DOMAIN free_chunks : \E r \in returned :
       r.ptr = free_chunks[i].ptr /\ r.size < free_chunks[i].size
  /\ ups_deallocs # << >>
  /\ Len(ups_deallocs) < Len(free_chunks)
  /\ Len(blocks) > 1

\* ---------------------------------------------------------------------------
\* The bytes of the blocks of a cache used by several threads
\* ---------------------------------------------------------------------------

\* the ranges the cache holds itself: what is left of the head and the
\* chunks of the free list
CacheHeldRanges ==
  (IF head_.size # 0 THEN << head_ >> ELSE << >>)
    \o [i \in DOMAIN free_chunks |->
          [ptr |-> free_chunks[i].ptr, size |-> free_chunks[i].size]]

\* the sizes of the ranges the callers of a set of threads hold, added up
RECURSIVE SumLiveOf(_)
SumLiveOf(threads) ==
  IF threads = {} THEN 0
  ELSE LET t == CHOOSE u \in threads : TRUE
       IN  SumLive(live[t]) + SumLiveOf(threads \ {t})

\* C37: whenever no call on the cache is in progress, whatever the
\* interleaving of the allocate and deallocate calls of the threads has
\* been, the bytes of the blocks obtained from the upstream are partitioned
\* into the ranges the callers hold, what is left of the head and the chunks
\* of the free list: each of these lies in a block, no two of them share a
\* byte and their sizes add up to the sizes of the blocks.
CacheByteAccounting ==
  (kind = "cache" /\ ~destroyed /\ \A t \in DOMAIN pc : pc[t] = "idle") =>
    LET held == CacheHeldRanges IN
    /\ \A t, u \in DOMAIN live : \A a \in live[t], b \in live[u] :
          (t # u \/ a # b) => Disjoint(a, b)
    /\ \A a \in AllLive :
          /\ \E b \in DOMAIN blocks : Inside(a, blocks[b])
          /\ \A i \in DOMAIN held : Disjoint(a, held[i])
    /\ \A i \in DOMAIN held :
          /\ \E b \in DOMAIN blocks : Inside(held[i], blocks[b])
          /\ \A j \in DOMAIN held : i # j => Disjoint(held[i], held[j])
    /\ SumLiveOf(DOMAIN live) + SumSizes(held) = SumSizes(blocks)

\* two threads have both obtained a block from the upstream; the block of
\* one of them has become the head, what was left of the other is on the
\* free list, and both callers hold their ranges
CacheByteAccountingWitness ==
  /\ kind = "cache" /\ ~trace /\ ~destroyed
  /\ \A t \in DOMAIN pc : pc[t] = "idle"
  /\ Len(blocks) = 2
  /\ \A t \in DOMAIN live : live[t] # {}
  /\ \E t, u \in DOMAIN live : \E a \in live[t], b \in live[u] :
        /\ t # u
        /\ a.ptr = blocks[1].ptr /\ b.ptr = blocks[2].ptr
  /\ head_.size # 0
  /\ free_chunks # << >>

\* ---------------------------------------------------------------------------
\* The free-chunk records of the cache and the regions they are written to
\* ---------------------------------------------------------------------------

\* sizeof(free_chunk_t): a pointer, a size_t and a pow2_t
SizeofFreeChunk == 24

\* the regions in which a free-chunk record has just been written: the
\* chunks deallocate is about to push and, in the destructor, what is left
\* of the head
RecordRegions ==
  { loc[t].chunk : t \in { u \in DOMAIN pc : pc[u] = "push_chunk" } }
    \cup { [ptr |-> r.ptr, next |-> 0, size |-> r.size,
            alignment |-> DefaultPow2] :
             r \in { h \in {head_} : destroyed /\ h.size # 0 } }

\* C38: every region in which the cache writes a free-chunk record (what a
\* caller deallocates, what is left of a replaced head or of a fresh block,
\* and what is left of the head in the destructor) is at least
\* sizeof(free_chunk_t) bytes long, also when the block sizes, ceiled to the
\* bounds of the upstream, are no multiples of the granularity.
CacheRecordFits ==
  kind = "cache" =>
    \A r \in RecordRegions : r.size >= SizeofFreeChunk

\* ---------------------------------------------------------------------------
\* The range of the block size hint of a cache used by several threads
\* ---------------------------------------------------------------------------

MaxRangeBlocks == 3

MaxRangeOps == 2

\* a whole first block, aligned below and above the granularity
RangeRequests ==
  { [size |-> 64, alignment |-> 16], [size |-> 64, alignment |-> 64] }

\* upstream_allocate: the request to an upstream that serves no more than
\* MaxRangeBlocks requests and may fail any
RangeUpstreamCall(t) == CacheUpstreamCallOf(t, MaxRangeBlocks)

InitRange ==
  CacheInit(Threads, CacheThreadUpstreams, RangeRequests, MaxRangeOps)

NextRange ==
  \E t \in Threads :
    \/ CacheAllocate(t)
    \/ CacheLoadHeadPtr(t)
    \/ CacheLoadHeadSize(t)
    \/ CacheFastPath(t)
    \/ CacheNextBlockSize(t)
    \/ RangeUpstreamCall(t)
    \/ CacheUpstreamOk(t)
    \/ CacheUpstreamFailed(t)
    \/ CacheInstall(t)
    \/ CacheChunkInit(t)
    \/ CachePushChunk(t)

SpecRange == InitRange /\ [][NextRange]_vars

\* a block size the configuration allows
InBlockSizeRange(value) ==
  CacheCfg.min_block_size <= value /\ value <= CacheCfg.max_block_size

\* C39: in every reachable state, under any interleaving of the allocate
\* calls of several threads and any pattern of upstream failures, the block
\* size hint is 0 or lies in [min_block_size, max_block_size], so the size
\* the policy chooses for the next request, as the one of every request in
\* progress, lies in [min_block_size, max_block_size].
CacheHintRange ==
  kind = "cache" =>
    /\ last_block_size_ = 0 \/ InBlockSizeRange(last_block_size_)
    /\ InBlockSizeRange(get_next_block_size(last_block_size_))
    /\ \A t \in DOMAIN pc :
          pc[t] \in {"upstream_call", "upstream_ok", "upstream_failed"} =>
            InBlockSizeRange(loc[t].next_size)

\* the hint has reached max_block_size while a second thread, which has
\* read a smaller hint, is still waiting for its block
CacheHintRangeWitness ==
  /\ kind = "cache" /\ ~trace
  /\ last_block_size_ = CacheCfg.max_block_size
  /\ \E t \in DOMAIN pc :
        /\ pc[t] = "upstream_call"
        /\ loc[t].next_size < CacheCfg.max_block_size

\* ---------------------------------------------------------------------------
\* Head snapshots read with two loads
\* ---------------------------------------------------------------------------

\* several threads using one stack, or one cache
SpecTorn == InitLockFree /\ [][NextLockFree]_vars

\* The snapshot thread t is about to compare with the head of its stack
\* mixes two head values: its counter is the one of the head, which no other
\* head value has had, and its pointer is not.
TornStackSnapshot(t) ==
  /\ pc[t] \in {"push_cas", "pop_cas"}
  /\ loc[t].old_head.aba_counter = chunk_stacks_[loc[t].stack_id].aba_counter
  /\ loc[t].old_head.ptr # chunk_stacks_[loc[t].stack_id].ptr

\* The snapshot thread t is about to compare with the head of the cache
\* has one word of the head and not the other.
TornCacheSnapshot(t) ==
  /\ pc[t] \in {"fast_path", "install"}
  /\ (loc[t].curr_head.ptr = head_.ptr) # (loc[t].curr_head.size = head_.size)

\* a head of the cache that is the pointer and the remaining size of one
\* block
HeadOfOneBlock(head) ==
  \E b \in DOMAIN blocks :
     /\ blocks[b].ptr < head.ptr
     /\ RangeEnd(head) = RangeEnd(blocks[b])

\* this step is one of thread t
StepOf(t) == pc'[t] # pc[t] \/ loc'[t] # loc[t]

\* a step that writes the head of a stack is the compare-and-swap of a
\* thread whose snapshot is the head, and what it installs is, for a pop,
\* the next pointer of the node that is the head and, for a push, the node
\* pushed, whose next pointer is the head
StackCasConsistent ==
  \A id \in DOMAIN chunk_stacks_ :
    chunk_stacks_'[id] # chunk_stacks_[id] =>
      \E t \in DOMAIN pc :
         LET l == loc[t] IN
         /\ StepOf(t) /\ l.stack_id = id
         /\ l.old_head = chunk_stacks_[id]
         /\ ~TornStackSnapshot(t)
         /\ chunk_stacks_'[id].aba_counter = chunk_stacks_[id].aba_counter + 1
         /\ \/ /\ pc[t] = "pop_cas"
               /\ chunk_stacks_[id].ptr \in on_stack[id]
               /\ chunk_stacks_'[id].ptr = mem_next[chunk_stacks_[id].ptr]
            \/ /\ pc[t] = "push_cas"
               /\ chunk_stacks_'[id].ptr = l.chunk.ptr
               /\ mem_next[l.chunk.ptr] = chunk_stacks_[id].ptr

\* a step that writes the head of the cache is the compare-and-swap of a
\* thread whose snapshot is the head, and what it installs is the pointer
\* and the remaining size of one block
CacheCasConsistent ==
  (kind = "cache" /\ head_' # head_) =>
    \E t \in DOMAIN pc :
       /\ StepOf(t) /\ pc[t] \in {"fast_path", "install"}
       /\ loc[t].curr_head = head_
       /\ ~TornCacheSnapshot(t)
       /\ HeadOfOneBlock(head_')
       /\ pc[t] = "fast_path" =>
            /\ HeadOfOneBlock(head_)
            /\ head_'.ptr = head_.ptr + loc[t].size

\* a compare-and-swap made with a snapshot that mixes two head values
\* leaves the head as it is
TornCasFails ==
  \A t \in DOMAIN pc :
    (StepOf(t) /\ (TornStackSnapshot(t) \/ TornCacheSnapshot(t))) =>
      /\ chunk_stacks_' = chunk_stacks_
      /\ head_' = head_
      /\ pc'[t] \in {"push_store_next", "pop_read_next", "fast_path",
                     "next_block_size", "install", "chunk_init", "idle"}

\* C40: push and pop of the stack and allocate of the cache read the two
\* words of the head with two loads, so that a thread may hold a snapshot
\* with the pointer of one head value and the counter or size of another;
\* under every interleaving a compare-and-swap made with such a snapshot
\* fails, and a compare-and-swap that succeeds was made with the head of that
\* instant and installs a head consistent with the state of that instant
\* (stack: the next pointer of the node that is the head; cache: the pointer
\* and the remaining size of one block).
TornSnapshotsHarmless ==
  [][TornCasFails /\ StackCasConsistent /\ CacheCasConsistent]_vars

\* a thread is about to compare-and-swap the head of the stack, or of the
\* cache, with a snapshot of which one word is the head's and the other is
\* stale
TornSnapshotsWitness ==
  \E t \in DOMAIN pc :
     \/ /\ kind = "stack" /\ pc[t] = "pop_cas" /\ TornStackSnapshot(t)
        /\ loc[t].old_head.ptr # NULL
     \/ /\ kind = "cache" /\ pc[t] = "fast_path" /\ TornCacheSnapshot(t)
        /\ ~NeedsDirectAllocation(loc[t].curr_head, loc[t].size,
                                  loc[t].alignment)

=============================================================================
